---- MODULE Spec2Model ----
(***************************************************************************)
(* Model of the finance-inbox backend: the OAuth credential lifecycle of   *)
(* GoogleService / SlackService over the oauth_tokens and connections      *)
(* tables, and the Gmail ingestion path over the emails table.             *)
(*                                                                         *)
(* Time is counted in minutes.  A datetime is a record [wall, off, aware]:  *)
(* the wall-clock reading in minutes, its UTC offset in minutes, and       *)
(* (aware = FALSE) when the value carries no tzinfo.                       *)
(***************************************************************************)
EXTENDS Integers, Sequences, FiniteSets, TLC

VARIABLES
    now,          \* the clock: minutes since the start, UTC
    oauth_tokens, \* table oauth_tokens: sequence indexed by token id
    connections,  \* table connections: [<<user, provider>> -> row or NoRow]
    emails,       \* table emails: sequence of rows, row id = index
    saved,        \* history: [user -> gmail ids passed to the emails upsert]
    lastOp,       \* history: the last completed operation and its outcome
    fetchers,     \* fetch_gmail_emails calls in flight, one per slot
    ticks,        \* history: how many times the clock has advanced
    polling_tasks, \* EmailPollingService._polling_tasks: the users with a task
    refreshing,   \* _refresh_token_if_needed calls in flight, one per user
    script,       \* categorize_existing_emails.py: where main() stands
    user_auth_data, \* AuthService.user_auth_data of the shared auth_service
    supabase_auth,  \* Supabase Auth: the sessions it has issued
    lastAuth        \* the /auth request answered last

\* the sign-in state, which only the /auth routes touch
signin == <<user_auth_data, supabase_auth, lastAuth>>

\* the state outside the tables, which the request handlers leave alone
others == <<polling_tasks, refreshing, script, signin>>

vars == <<now, oauth_tokens, connections, emails, saved, lastOp, fetchers, ticks,
          others>>

----------------------------------------------------------------------------
(* Bounds of the model *)

MaxTicks == 2
MaxTokens == 2
MaxResults == 2
MaxBatchSize == 2
MaxSessions == 2

(* Program constants *)

RefreshMarginMinutes == 5
TokenLifetimeMinutes == 60
SlackBufferMinutes == 60
SlackLifetimeMinutes == 525600
MinutesPerDay == 1440
EpochMinutes == 0
DefaultThreadLimit == 50

----------------------------------------------------------------------------
(* Value universes *)

Users == {"u1", "u2"}
Providers == {"gmail", "slack"}
ConnectionStatus == {"connected", "disconnected", "refresh_required"}
\* models.py: the members of enum ConnectionProvider
ConnectionProvider == {"gmail"}

Null == "null"
NoRefreshToken == ""
\* Optional[UUID] = None and Optional[datetime] = None of models.Connection
NoTokenId == 0
NoTime == -1

\* the provider issues at1 / rt1 at a code exchange and at2 / rt2 at a refresh
AccessTokens == {"at1", "at2"}
RefreshTokens == {"rt1", "rt2"}
GmailScope == "gmail_scopes"
SlackScope == "slack_scopes"

----------------------------------------------------------------------------
(* datetimes *)

\* datetime.now(timezone.utc) when the clock reads t
UtcAt(t) == [wall |-> t, off |-> 0, aware |-> TRUE]

\* GoogleService._ensure_utc / SlackService._ensure_utc: a naive value is
\* taken to be UTC, an aware one is converted to UTC
EnsureUtc(dt) ==
    IF ~dt.aware
        THEN [wall |-> dt.wall, off |-> 0, aware |-> TRUE]
        ELSE [wall |-> dt.wall - dt.off, off |-> 0, aware |-> TRUE]

\* the instant of an aware datetime, minutes UTC
Instant(dt) == dt.wall - dt.off

----------------------------------------------------------------------------
(* The connections and oauth_tokens tables *)

\* no row of table connections for the key
NoRow == [status |-> "no_row", oauth_token_id |-> NoTokenId, last_sync_at |-> NoTime]

\* a deleted row of table oauth_tokens (ids are never given out again)
Deleted == [provider |-> "deleted", access_token |-> Null, refresh_token |-> Null,
            expires_at |-> UtcAt(0), scope |-> Null]

Conn(u, p) == connections[<<u, p>>]

TokenIds == 1..Len(oauth_tokens)

TokenExists(id) == id \in TokenIds /\ oauth_tokens[id] # Deleted

ProviderOfToken(p) == IF p = "gmail" THEN "google" ELSE "slack"

\* _get_tokens_from_db: the id of the token the connection of (u, p) refers
\* to, or NoTokenId.  .single() raises on a missing connection row, which the
\* method turns into None.
GetTokenId(conns, toks, u, p) ==
    LET c == conns[<<u, p>>] IN
    IF c = NoRow THEN NoTokenId
    ELSE IF c.oauth_token_id = NoTokenId THEN NoTokenId
    ELSE IF c.oauth_token_id \in 1..Len(toks)
            /\ toks[c.oauth_token_id] # Deleted
            /\ toks[c.oauth_token_id].provider = ProviderOfToken(p)
        THEN c.oauth_token_id
    ELSE NoTokenId

\* a row of table oauth_tokens
TokenRow(p, at, rt, exp, scope) ==
    [provider |-> ProviderOfToken(p), access_token |-> at, refresh_token |-> rt,
     expires_at |-> exp, scope |-> scope]

\* how the store hands out column expires_at: with its UTC offset, or, from
\* a column without time zone, as the bare UTC reading
TimestampColumns == {"timestamptz", "timestamp"}

\* OAuthToken(**row): the rows of oauth_tokens as a service reads them
TokensAsRead(toks, column) ==
    [i \in 1..Len(toks) |->
        IF column = "timestamp" /\ toks[i] # Deleted
            THEN [toks[i] EXCEPT !.expires_at = [@ EXCEPT !.aware = FALSE]]
            ELSE toks[i]]

\* the table after a service that read it as asRead has left result: the
\* rows it did not write are the stored ones
TokensAfter(stored, asRead, result) ==
    [i \in 1..Len(result) |->
        IF i <= Len(stored) /\ result[i] = asRead[i] THEN stored[i] ELSE result[i]]

\* a row of table connections
ConnRow(status, tid, sync) ==
    [status |-> status, oauth_token_id |-> tid, last_sync_at |-> sync]

SetConn(conns, u, p, row) == [conns EXCEPT ![<<u, p>>] = row]

\* ConnectionsService.create_or_update_connection: an upsert on
\* (user_id, connection_provider) of the columns that are not None, so a
\* None oauth_token_id leaves an existing row's reference as it is and gives
\* a new row a null one.
CreateOrUpdateConnection(conns, u, p, status, tid) ==
    LET c == conns[<<u, p>>] IN
    IF c = NoRow
        THEN SetConn(conns, u, p, ConnRow(status, tid, NoTime))
        ELSE SetConn(conns, u, p,
                [c EXCEPT !.status = status,
                          !.oauth_token_id = IF tid = NoTokenId THEN @ ELSE tid])

\* ConnectionsService.update_last_sync
UpdateLastSync(conns, u, p, t) ==
    LET c == conns[<<u, p>>] IN
    IF c = NoRow THEN conns
    ELSE SetConn(conns, u, p, [c EXCEPT !.last_sync_at = t])

\* ConnectionsService.disconnect_provider: the rows it leaves
DisconnectProvider(conns, u, p) ==
    LET c == conns[<<u, p>>] IN
    IF c = NoRow THEN conns
    ELSE SetConn(conns, u, p,
            [c EXCEPT !.status = "disconnected", !.oauth_token_id = NoTokenId])

\* ConnectionsService.disconnect_provider: its return value
DisconnectProviderResult(conns, u, p) == conns[<<u, p>>] # NoRow

----------------------------------------------------------------------------
(* GoogleService: credentials *)

\* GoogleService._save_tokens_to_db.  The token row the connection refers to
\* is updated in place, or a new row is inserted; then the connection row, if
\* there is one, is pointed at it.
SaveTokenRow(toks, conns, u, existing, row) ==
    LET tid == IF existing # NoTokenId THEN existing ELSE Len(toks) + 1
        c == conns[<<u, "gmail">>]
    IN [toks |-> IF existing # NoTokenId
                    THEN [toks EXCEPT ![existing] = row]
                    ELSE Append(toks, row),
        conns |-> IF c = NoRow THEN conns
                  ELSE SetConn(conns, u, "gmail", [c EXCEPT !.oauth_token_id = tid]),
        ok |-> TRUE]

\* GoogleService._save_tokens_to_db: the row is built with the expiry
\* normalised to UTC, the existing token looked up through the connection
SaveTokensToDb(toks, conns, u, at, rt, exp, scope) ==
    SaveTokenRow(toks, conns, u, GetTokenId(conns, toks, u, "gmail"),
                 TokenRow("gmail", at, rt, EnsureUtc(exp), scope))

\* _delete_tokens_from_db once the token has been looked up: nothing to
\* delete is success
DeleteTokenRow(toks, conns, u, existing) ==
    IF existing = NoTokenId
        THEN [toks |-> toks, conns |-> conns, ok |-> TRUE]
        ELSE [toks |-> [toks EXCEPT ![existing] = Deleted],
              conns |-> SetConn(conns, u, "gmail",
                            [conns[<<u, "gmail">>] EXCEPT !.oauth_token_id = NoTokenId]),
              ok |-> TRUE]

\* GoogleService._delete_tokens_from_db
DeleteTokensFromDb(toks, conns, u) ==
    DeleteTokenRow(toks, conns, u, GetTokenId(conns, toks, u, "gmail"))

\* GoogleService._create_gmail_connection and
\* ConnectionsService.create_gmail_connection_after_oauth
CreateGmailConnection(toks, conns, u) ==
    CreateOrUpdateConnection(conns, u, "gmail", "connected",
                             GetTokenId(conns, toks, u, "gmail"))

\* what Google answers to the code exchange: rejected (flow.fetch_token
\* raises), or an access token with or without a refresh token
ExchangeResponses ==
    {[ok |-> FALSE, access_token |-> Null, refresh_token |-> Null]}
    \cup [ok : {TRUE}, access_token : {"at1"}, refresh_token : {"rt1", Null}]

\* handle_oauth_callback after _save_tokens_to_db has answered s
AfterTokensSaved(u, s) ==
    IF s.ok
        THEN [toks |-> s.toks,
              conns |-> CreateGmailConnection(s.toks, s.conns, u),
              result |-> "message", called |-> TRUE]
        ELSE [toks |-> s.toks, conns |-> s.conns, result |-> "error",
              called |-> TRUE]

\* handle_oauth_callback after flow.fetch_token has answered resp
ExchangeCode(toks, conns, u, resp, t) ==
    IF ~resp.ok
        THEN [toks |-> toks, conns |-> conns, result |-> "error", called |-> TRUE]
    ELSE AfterTokensSaved(u,
            SaveTokensToDb(toks, conns, u, resp.access_token,
                    IF resp.refresh_token = Null THEN NoRefreshToken
                                                 ELSE resp.refresh_token,
                    UtcAt(t + TokenLifetimeMinutes), GmailScope))

\* a variant of the handler below without the test of the code
HandleOauthCallbackAnyCode(toks, conns, u, code, resp, t) ==
    ExchangeCode(toks, conns, u, resp, t)

\* GoogleService.handle_oauth_callback: the tables it leaves, its result, and
\* whether the exchange with the provider was attempted (called)
HandleOauthCallback(toks, conns, u, code, resp, t) ==
    IF code = Null
        THEN [toks |-> toks, conns |-> conns, result |-> "error", called |-> FALSE]
    ELSE ExchangeCode(toks, conns, u, resp, t)

\* what Google answers to a refresh: failure (creds.refresh raises), or a new
\* access token, with a rotated refresh token or none
RefreshResponses ==
    {[ok |-> FALSE, access_token |-> Null, refresh_token |-> Null]}
    \cup [ok : {TRUE}, access_token : {"at2"}, refresh_token : {"rt2", Null}]

\* a variant of the test below that refreshes one minute early
StillValidWiderMargin(tok, t) ==
    Instant(UtcAt(t)) + 1 < Instant(EnsureUtc(tok.expires_at)) - RefreshMarginMinutes

\* the test of _refresh_token_if_needed: more than the margin is left
StillValid(tok, t) ==
    Instant(UtcAt(t)) < Instant(EnsureUtc(tok.expires_at)) - RefreshMarginMinutes

\* a variant of the choice below that stores what the provider answered
RefreshTokenFromResponse(tok, resp) ==
    IF resp.refresh_token = Null THEN NoRefreshToken ELSE resp.refresh_token

\* the refresh token _refresh_token_if_needed stores after a refresh
RefreshTokenToStore(tok, resp) == tok.refresh_token

\* _refresh_token_if_needed once the token (id tid) has been looked up: the
\* tables it leaves, its result, and whether it called the provider
RefreshToken(toks, conns, u, resp, t, tid) ==
    LET same == [toks |-> toks, conns |-> conns]
    IN IF tid = NoTokenId
        THEN same @@ [ok |-> FALSE, called |-> FALSE]
    ELSE IF StillValid(toks[tid], t)
        THEN same @@ [ok |-> TRUE, called |-> FALSE]
    ELSE IF toks[tid].refresh_token \in {NoRefreshToken, Null}
        THEN same @@ [ok |-> FALSE, called |-> FALSE]
    ELSE IF ~resp.ok
        THEN same @@ [ok |-> FALSE, called |-> TRUE]
    ELSE [called |-> TRUE]
         @@ SaveTokensToDb(toks, conns, u, resp.access_token,
                        RefreshTokenToStore(toks[tid], resp),
                        UtcAt(t + TokenLifetimeMinutes),
                        IF toks[tid].scope \in {Null, ""} THEN GmailScope
                                                          ELSE toks[tid].scope)

\* GoogleService._refresh_token_if_needed
RefreshTokenIfNeeded(toks, conns, u, resp, t) ==
    RefreshToken(toks, conns, u, resp, t, GetTokenId(conns, toks, u, "gmail"))

\* GoogleService.clear_tokens: the connection is disconnected first, the
\* token is looked up through the connection afterwards
ClearTokens(toks, conns, u) ==
    [result |-> "message"]
    @@ DeleteTokensFromDb(toks, DisconnectProvider(conns, u, "gmail"), u)

----------------------------------------------------------------------------
(* SlackService: credentials *)

\* SlackService._save_tokens_to_db: the token row is updated or inserted,
\* then the connection row is updated to connected, or inserted
SlackSaveTokensToDb(toks, conns, u, at, rt, exp, scope) ==
    LET existing == GetTokenId(conns, toks, u, "slack")
        row == TokenRow("slack", at, rt, EnsureUtc(exp), scope)
        tid == IF existing # NoTokenId THEN existing ELSE Len(toks) + 1
        toks2 == IF existing # NoTokenId
                    THEN [toks EXCEPT ![existing] = row]
                    ELSE Append(toks, row)
        c == conns[<<u, "slack">>]
        conns2 == IF c = NoRow
                    THEN SetConn(conns, u, "slack", ConnRow("connected", tid, NoTime))
                    ELSE SetConn(conns, u, "slack",
                            [c EXCEPT !.oauth_token_id = tid, !.status = "connected"])
    IN [toks |-> toks2, conns |-> conns2, ok |-> TRUE]

\* what Slack answers to oauth.v2.access: a transport error, ok = false, ok
\* without an access token, or an access token
SlackResponses ==
    {[raised |-> TRUE, ok |-> FALSE, access_token |-> Null],
     [raised |-> FALSE, ok |-> FALSE, access_token |-> Null],
     [raised |-> FALSE, ok |-> TRUE, access_token |-> Null]}
    \cup [raised : {FALSE}, ok : {TRUE}, access_token : {"at1"}]

\* SlackService.handle_oauth_callback
SlackHandleOauthCallback(toks, conns, u, resp, t) ==
    IF resp.raised \/ ~resp.ok \/ resp.access_token = Null
        THEN [toks |-> toks, conns |-> conns, result |-> "error"]
    ELSE LET s == SlackSaveTokensToDb(toks, conns, u, resp.access_token,
                        NoRefreshToken, UtcAt(t + SlackLifetimeMinutes), SlackScope)
         IN [toks |-> s.toks, conns |-> s.conns,
             result |-> IF s.ok THEN "message" ELSE "error"]

\* the redirect oauth2callback answers once the service has returned r
SlackRedirect(r) ==
    r @@ [called |-> TRUE,
          redirect |-> IF r.result = "error" THEN "error=reason"
                                             ELSE "success=slack_connected"]

\* apis/connect_slack.oauth2callback: the user id is the state parameter.
\* redirect is the query parameter of the redirect to the frontend; result is
\* "message" for the success redirect and "error" for every other one; called
\* tells whether SlackService.handle_oauth_callback was reached.
SlackOauth2Callback(toks, conns, code, state, resp, t) ==
    IF code = Null
        THEN [toks |-> toks, conns |-> conns, result |-> "error",
              redirect |-> "error=no_code", called |-> FALSE]
    ELSE IF state = Null
        THEN [toks |-> toks, conns |-> conns, result |-> "error",
              redirect |-> "error=no_state", called |-> FALSE]
    ELSE SlackRedirect(SlackHandleOauthCallback(toks, conns, state, resp, t))

\* SlackService.refresh_access_token: the connections it leaves and its
\* result.  expires_at is compared as it was read: a naive value against the
\* aware now raises TypeError, and ConnectionProvider.SLACK raises
\* AttributeError when the enum has no such member; both end in the except
\* clause, which returns False.
SlackRefreshAccessToken(toks, conns, u, t) ==
    LET tid == GetTokenId(conns, toks, u, "slack") IN
    IF tid = NoTokenId
        THEN [conns |-> conns, ok |-> FALSE]
    ELSE IF ~toks[tid].expires_at.aware
        THEN [conns |-> conns, ok |-> FALSE]
    ELSE IF Instant(toks[tid].expires_at) > t + SlackBufferMinutes
        THEN [conns |-> conns, ok |-> TRUE]
    ELSE IF "slack" \notin ConnectionProvider
        THEN [conns |-> conns, ok |-> FALSE]
    ELSE [conns |-> CreateOrUpdateConnection(conns, u, "slack",
                        "refresh_required", NoTokenId),
          ok |-> FALSE]

\* apis/connect_slack.disconnect: ConnectionProvider.SLACK is evaluated
\* inside the try block; any exception becomes an HTTP 500
SlackDisconnectRoute(conns, u) ==
    IF "slack" \notin ConnectionProvider
        THEN [conns |-> conns, result |-> "http_500"]
    ELSE [conns |-> DisconnectProvider(conns, u, "slack"),
          result |-> IF DisconnectProviderResult(conns, u, "slack")
                        THEN "message" ELSE "error"]

\* apis/settings.disconnect_provider
SettingsDisconnectRoute(toks, conns, u, p) ==
    IF p \notin ConnectionProvider
        THEN [toks |-> toks, conns |-> conns, result |-> "http_400"]
    ELSE IF p = "gmail"
        THEN ClearTokens(toks, conns, u)
    ELSE [toks |-> toks, conns |-> DisconnectProvider(conns, u, p),
          result |-> IF DisconnectProviderResult(conns, u, p)
                        THEN "message" ELSE "http_404"]

----------------------------------------------------------------------------
(* The Gmail mailbox (provider side) *)

MsgIds == {"m1", "m2", "m3"}

\* messages whose details are out of the ordinary: m4 has no Date header
\* that parses, m5 comes without a threadId
OddMsgIds == {"m4", "m5"}

\* users().messages().get(): threadId, the Date header parsed to minutes
\* (NoTime: header missing or unparseable), Gmail's own internal date, the
\* Subject and From headers, whether a part carries an attachment
GmailMsg(m) ==
    CASE m = "m1" -> [id |-> "m1", threadId |-> "T1", date |-> 100, internal |-> 100,
                      subject |-> "subject1", from |-> "ann", attachment |-> FALSE]
      [] m = "m2" -> [id |-> "m2", threadId |-> "T1", date |-> 1500, internal |-> 1500,
                      subject |-> "subject2", from |-> "bob", attachment |-> TRUE]
      [] m = "m3" -> [id |-> "m3", threadId |-> "T2", date |-> 3000, internal |-> 3000,
                      subject |-> "subject3", from |-> "ann", attachment |-> FALSE]
      [] m = "m4" -> [id |-> "m4", threadId |-> "T1", date |-> NoTime, internal |-> 2000,
                      subject |-> "subject4", from |-> "cat", attachment |-> FALSE]
      [] m = "m5" -> [id |-> "m5", threadId |-> Null, date |-> 2500, internal |-> 2500,
                      subject |-> "subject5", from |-> "dan", attachment |-> FALSE]

DayOf(t) == t \div MinutesPerDay

\* the ids of S, newest first by internal date
RECURSIVE NewestFirst(_)
NewestFirst(S) ==
    IF S = {} THEN <<>>
    ELSE LET m == CHOOSE x \in S :
                    \A y \in S : GmailMsg(y).internal <= GmailMsg(x).internal
         IN <<m>> \o NewestFirst(S \ {m})

Take(seq, n) == SubSeq(seq, 1, IF Len(seq) < n THEN Len(seq) ELSE n)

\* users().messages().list(maxResults, q): of the messages in the mailbox,
\* those the query admits ("after:Y/M/D", or no query), newest first
ListMessages(mailbox, query, max_results) ==
    Take(NewestFirst({m \in mailbox :
            query = NoTime \/ DayOf(GmailMsg(m).internal) >= DayOf(query)}),
         max_results)

----------------------------------------------------------------------------
(* GoogleService: the emails table *)

\* a row as it is inserted: the category column is null by default
EmailRow(u, id, thread, date, labels, read) ==
    [user_id |-> u, gmail_id |-> id, thread_id |-> thread, date_sent |-> date,
     labels |-> labels, is_read |-> read, category |-> Null,
     subject |-> Null, from_email |-> Null, has_attachments |-> FALSE]

\* GoogleService._extract_email_details
ExtractEmailDetails(msg) ==
    [id |-> msg.id, thread_id |-> msg.threadId, date |-> msg.date, labels |-> "INBOX",
     subject |-> msg.subject, from_email |-> msg.from,
     has_attachments |-> msg.attachment]

RowsOf(em, u) == {i \in 1..Len(em) : em[i].user_id = u}

EmailNeverExistsInDb(em, u, id) == FALSE

\* GoogleService._email_exists_in_db
EmailExistsInDb(em, u, id) == \E i \in RowsOf(em, u) : em[i].gmail_id = id

\* GoogleService._get_most_recent_email_date: order by date_sent desc, limit
\* 1; a descending order puts null dates first, and a null first row gives None
MostRecentEmailDate(em, u) ==
    IF RowsOf(em, u) = {} THEN NoTime
    ELSE IF \E i \in RowsOf(em, u) : em[i].date_sent = NoTime THEN NoTime
    ELSE LET i == CHOOSE x \in RowsOf(em, u) :
                    \A y \in RowsOf(em, u) : em[y].date_sent <= em[x].date_sent
         IN em[i].date_sent

\* a variant of the upsert below that ignores the conflict key
SaveEmailAlwaysInserts(em, u, d) ==
    Append(em, EmailRow(u, d.id, d.thread_id, d.date, d.labels, FALSE))

\* the category key of db_email_data: present only when the categorization
\* added it
CategoryIn(d) == IF "category" \in DOMAIN d THEN d.category ELSE Null

\* GoogleService._save_email_to_db, the upsert of db_email_data d on
\* (user_id, gmail_id): the columns that are not None are written; is_read
\* False is always among them
SaveEmailToDb(em, u, d) ==
    IF EmailExistsInDb(em, u, d.id)
        THEN LET i == CHOOSE x \in RowsOf(em, u) : em[x].gmail_id = d.id IN
             [em EXCEPT ![i] = [@ EXCEPT
                !.thread_id = IF d.thread_id = Null THEN @ ELSE d.thread_id,
                !.date_sent = IF d.date = NoTime THEN @ ELSE d.date,
                !.labels = d.labels,
                !.is_read = FALSE,
                !.category = IF CategoryIn(d) = Null THEN @ ELSE CategoryIn(d),
                !.subject = d.subject,
                !.from_email = d.from_email,
                !.has_attachments = d.has_attachments]]
        ELSE Append(em, [EmailRow(u, d.id, d.thread_id, d.date, d.labels, FALSE)
                            EXCEPT !.category = CategoryIn(d),
                                   !.subject = d.subject,
                                   !.from_email = d.from_email,
                                   !.has_attachments = d.has_attachments])

\* what the categorization does for one email: the service cannot be
\* initialised (get_email_categorization_service raises), the call to the
\* model raises or times out (categorize_email catches it and returns no
\* category), the answer holds no category, or it holds one
CategorizerUnavailable == "unavailable"
CategorizationFailures == {CategorizerUnavailable, "raised", "no_category"}
CategorizationOutcomes == CategorizationFailures \cup {"OTHER"}

\* _save_email_to_db, the categorization block: db_email_data after it
WithCategorization(d, cat) ==
    IF cat \in CategorizationFailures THEN d
    ELSE d @@ [category |-> cat]

\* a variant of the method below that gives up when there is no category
SaveOnlyIfCategorized(em, u, d, cat) ==
    IF cat \in CategorizationFailures THEN em
    ELSE SaveEmailToDb(em, u, WithCategorization(d, cat))

\* GoogleService._save_email_to_db, whole: the categorization, then the upsert
SaveEmailCategorized(em, u, d, cat) ==
    SaveEmailToDb(em, u, WithCategorization(d, cat))

----------------------------------------------------------------------------
(* GoogleService: threads *)

\* the key the thread sorts use: date_sent, or 1970-01-01 when it is null
SortKey(d) == IF d = NoTime THEN EpochMinutes ELSE d

\* .order("date_sent", desc=True): latest first, null dates before all others;
\* rows with equal dates in insertion order
NullsFirstDesc(em, x, y) ==
    IF em[x].date_sent = em[y].date_sent THEN x <= y
    ELSE IF em[x].date_sent = NoTime THEN TRUE
    ELSE IF em[y].date_sent = NoTime THEN FALSE
    ELSE em[x].date_sent > em[y].date_sent

RECURSIVE OrderedDesc(_, _)
OrderedDesc(em, S) ==
    IF S = {} THEN <<>>
    ELSE LET i == CHOOSE x \in S : \A y \in S : NullsFirstDesc(em, x, y)
         IN <<i>> \o OrderedDesc(em, S \ {i})

\* the key emails are grouped under: thread_id, or gmail_id when it is empty
ThreadKey(row) == IF row.thread_id \in {Null, ""} THEN row.gmail_id ELSE row.thread_id

\* the rows of seq grouped under key, in order
RECURSIVE SelectRows(_, _, _)
SelectRows(em, seq, key) ==
    IF seq = <<>> THEN <<>>
    ELSE (IF ThreadKey(em[Head(seq)]) = key THEN <<Head(seq)>> ELSE <<>>)
         \o SelectRows(em, Tail(seq), key)

\* the keys of threads_map in insertion order
RECURSIVE ThreadKeysInOrder(_, _, _)
ThreadKeysInOrder(em, seq, seen) ==
    IF seq = <<>> THEN <<>>
    ELSE LET k == ThreadKey(em[Head(seq)]) IN
         IF k \in seen THEN ThreadKeysInOrder(em, Tail(seq), seen)
         ELSE <<k>> \o ThreadKeysInOrder(em, Tail(seq), seen \cup {k})

\* a variant of the sort below that leaves the rows as the query returned them
AsQueried(em, seq) == seq

\* list.sort(key=date_sent or epoch): a stable ascending sort of row ids
RECURSIVE StableAscending(_, _)
StableAscending(em, seq) ==
    IF seq = <<>> THEN <<>>
    ELSE LET p == CHOOSE x \in 1..Len(seq) :
                    /\ \A y \in 1..Len(seq) :
                            SortKey(em[seq[x]].date_sent) <= SortKey(em[seq[y]].date_sent)
                    /\ \A y \in 1..(x - 1) :
                            SortKey(em[seq[y]].date_sent) > SortKey(em[seq[x]].date_sent)
         IN <<seq[p]>> \o StableAscending(em,
                SubSeq(seq, 1, p - 1) \o SubSeq(seq, p + 1, Len(seq)))

\* max(emails, key=date_sent or epoch): the first of the greatest
LatestOf(em, seq) ==
    LET p == CHOOSE x \in 1..Len(seq) :
                /\ \A y \in 1..Len(seq) :
                        SortKey(em[seq[y]].date_sent) <= SortKey(em[seq[x]].date_sent)
                /\ \A y \in 1..(x - 1) :
                        SortKey(em[seq[y]].date_sent) < SortKey(em[seq[x]].date_sent)
    IN seq[p]

\* GoogleService._format_inbox_email: is_unread of a row
IsUnread(row) == ~row.is_read

\* the thread dictionary both readers build from the member rows in the
\* order they list them (ordered) and from the row max() chose (latest)
ThreadDict(em, key, ordered, latest) ==
    [thread_id |-> key,
     subject |-> em[latest].subject,
     latest_sender |-> em[latest].from_email,
     email_count |-> Len(ordered),
     latest_date_sent |-> em[latest].date_sent,
     unread_count |-> Cardinality({i \in 1..Len(ordered) : IsUnread(em[ordered[i]])}),
     is_unread |-> \E i \in 1..Len(ordered) : IsUnread(em[ordered[i]]),
     has_attachments |-> \E i \in 1..Len(ordered) : em[ordered[i]].has_attachments,
     emails |-> [i \in 1..Len(ordered) |-> em[ordered[i]].gmail_id]]

\* the thread dictionary of the member rows in the order given
ThreadOf(em, key, ordered) == ThreadDict(em, key, ordered, LatestOf(em, ordered))

\* one thread object of get_inbox_threads: the members are sorted again,
\* oldest first, null dates as the epoch
ThreadObject(em, key, members) == ThreadOf(em, key, StableAscending(em, members))

\* threads.sort(key=latest_date_sent or epoch, reverse=True): stable
RECURSIVE StableDescending(_)
StableDescending(ths) ==
    IF ths = <<>> THEN <<>>
    ELSE LET p == CHOOSE x \in 1..Len(ths) :
                    /\ \A y \in 1..Len(ths) :
                            SortKey(ths[y].latest_date_sent) <= SortKey(ths[x].latest_date_sent)
                    /\ \A y \in 1..(x - 1) :
                            SortKey(ths[y].latest_date_sent) < SortKey(ths[x].latest_date_sent)
         IN <<ths[p]>> \o StableDescending(
                SubSeq(ths, 1, p - 1) \o SubSeq(ths, p + 1, Len(ths)))

\* a variant of the method below that pages the email rows of the query
GetInboxThreadsOfRowPage(em, u, limit, offset) ==
    LET all == OrderedDesc(em, RowsOf(em, u))
        rows == SubSeq(all, offset + 1,
                       IF Len(all) < offset + limit THEN Len(all) ELSE offset + limit)
        keys == ThreadKeysInOrder(em, rows, {})
    IN StableDescending(
            [i \in 1..Len(keys) |->
                ThreadObject(em, keys[i], SelectRows(em, rows, keys[i]))])

\* GoogleService.get_inbox_threads(limit, offset)
GetInboxThreads(em, u, limit, offset) ==
    LET rows == OrderedDesc(em, RowsOf(em, u))
        keys == ThreadKeysInOrder(em, rows, {})
        ths == StableDescending(
                 [i \in 1..Len(keys) |->
                    ThreadObject(em, keys[i], SelectRows(em, rows, keys[i]))])
    IN SubSeq(ths, offset + 1,
              IF Len(ths) < offset + limit THEN Len(ths) ELSE offset + limit)

\* .order("date_sent", desc=False): oldest first, null dates after all
\* others; rows with equal dates in insertion order
NullsLastAsc(em, x, y) ==
    IF em[x].date_sent = em[y].date_sent THEN x <= y
    ELSE IF em[x].date_sent = NoTime THEN FALSE
    ELSE IF em[y].date_sent = NoTime THEN TRUE
    ELSE em[x].date_sent < em[y].date_sent

RECURSIVE OrderedAsc(_, _)
OrderedAsc(em, S) ==
    IF S = {} THEN <<>>
    ELSE LET i == CHOOSE x \in S : \A y \in S : NullsLastAsc(em, x, y)
         IN <<i>> \o OrderedAsc(em, S \ {i})

\* a variant of the query below that asks for the latest rows first
RowsOfThreadLatestFirst(em, u, thread_id) ==
    OrderedDesc(em, {i \in RowsOf(em, u) : em[i].thread_id = thread_id})

\* get_thread_by_id, the query: the rows whose thread_id column is thread_id,
\* in the order the database returns them
RowsOfThread(em, u, thread_id) ==
    OrderedAsc(em, {i \in RowsOf(em, u) : em[i].thread_id = thread_id})

\* get_thread_by_id once the rows have been read: the threads it returns, one
\* or none
ThreadOfRows(em, thread_id, rows) ==
    IF rows = <<>> THEN {} ELSE {ThreadOf(em, thread_id, rows)}

\* GoogleService.get_thread_by_id
GetThreadById(em, u, thread_id) ==
    ThreadOfRows(em, thread_id, RowsOfThread(em, u, thread_id))

\* a variant of the update below that leaves out the user_id filter
MarkEmailAsReadOfAnyone(em, u, email_id) ==
    [i \in 1..Len(em) |->
        IF i = email_id THEN [em[i] EXCEPT !.is_read = TRUE] ELSE em[i]]

\* GoogleService.mark_email_as_read: the update is by the row's primary key
\* id, which is the row's position in the table here
MarkEmailAsRead(em, u, email_id) ==
    [i \in 1..Len(em) |->
        IF em[i].user_id = u /\ i = email_id THEN [em[i] EXCEPT !.is_read = TRUE]
        ELSE em[i]]

\* a variant of the update below that matches the rows by gmail_id
MarkMessageAsRead(em, u, thread_id) ==
    [i \in 1..Len(em) |->
        IF em[i].user_id = u /\ em[i].gmail_id = thread_id
            THEN [em[i] EXCEPT !.is_read = TRUE]
        ELSE em[i]]

\* GoogleService.mark_thread_as_read: the update is by the thread_id column
MarkThreadAsRead(em, u, thread_id) ==
    [i \in 1..Len(em) |->
        IF em[i].user_id = u /\ em[i].thread_id = thread_id
            THEN [em[i] EXCEPT !.is_read = TRUE]
        ELSE em[i]]

----------------------------------------------------------------------------
(* GoogleService: fetch *)

\* GoogleService._get_authenticated_gmail_service
\* _get_authenticated_gmail_service after _refresh_token_if_needed has
\* answered r: the tokens are read once more
AfterRefresh(u, r) ==
    IF ~r.ok THEN r
    ELSE IF GetTokenId(r.conns, r.toks, u, "gmail") = NoTokenId
        THEN [r EXCEPT !.ok = FALSE]
    ELSE r

\* a variant of the method below that builds the service without tokens
GetServiceWithoutTokens(toks, conns, u, resp, t) ==
    [toks |-> toks, conns |-> conns, ok |-> TRUE, called |-> FALSE]

\* GoogleService._get_authenticated_gmail_service
GetAuthenticatedGmailService(toks, conns, u, resp, t) ==
    IF GetTokenId(conns, toks, u, "gmail") = NoTokenId
        THEN [toks |-> toks, conns |-> conns, ok |-> FALSE, called |-> FALSE]
    ELSE AfterRefresh(u, RefreshTokenIfNeeded(toks, conns, u, resp, t))

\* the loop of fetch_gmail_emails over the listed messages, from position i.
\* failAt is the position at which users().messages().get() raises (0: it
\* never does).
\* env.cat is what the categorization does for the emails of this fetch.
\* env.checkFailAt is the position at which the query of _email_exists_in_db
\* raises, which the method answers with False; env.saveFailAt the position
\* at which the upsert of _save_email_to_db raises, which the method answers
\* with False after the email has joined the returned list.
\* acc.got are the ids messages().get() was called for.
RECURSIVE IngestFrom(_, _, _, _, _, _)
IngestFrom(acc, u, msgs, i, only_new, env) ==
    IF i > Len(msgs) THEN acc
    ELSE IF only_new /\ i # env.checkFailAt /\ EmailExistsInDb(acc.em, u, msgs[i])
        THEN IngestFrom(acc, u, msgs, i + 1, only_new, env)
    ELSE IF i = env.failAt
        THEN [acc EXCEPT !.failed = TRUE, !.got = @ \cup {msgs[i]}]
    ELSE LET d == ExtractEmailDetails(GmailMsg(msgs[i])) IN
         IngestFrom([em |-> IF i = env.saveFailAt THEN acc.em
                            ELSE SaveEmailCategorized(acc.em, u, d, env.cat),
                     returned |-> Append(acc.returned, d.id),
                     upserted |-> IF i = env.saveFailAt THEN acc.upserted
                                  ELSE acc.upserted \cup {d.id},
                     got |-> acc.got \cup {d.id},
                     listed |-> acc.listed,
                     failed |-> FALSE],
                    u, msgs, i + 1, only_new, env)

\* what the provider does during one fetch: its answer to a refresh, the
\* messages in the mailbox, whether list() raises, where get() raises, what
\* the categorization does
FetchEnvs(max_results, mailboxes, refreshes, cats) ==
    UNION {[refresh : refreshes, mailbox : {mb}, listFails : BOOLEAN,
            failAt : 0..(IF Cardinality(mb) < max_results
                         THEN Cardinality(mb) ELSE max_results),
            cat : cats, checkFailAt : {0}, saveFailAt : {0}]
           : mb \in mailboxes}

\* the same with a store that raises: at no position (0) or at the first one
StoreFailingEnvs(max_results, mailboxes, refreshes, cats) ==
    UNION {[refresh : refreshes, mailbox : {mb}, listFails : BOOLEAN,
            failAt : 0..(IF Cardinality(mb) < max_results
                         THEN Cardinality(mb) ELSE max_results),
            cat : cats, checkFailAt : {0, 1}, saveFailAt : {0, 1}]
           : mb \in mailboxes}

\* whether _refresh_token_if_needed gets as far as calling the provider
RefreshCalls(toks, conns, u, t) ==
    \E tid \in {GetTokenId(conns, toks, u, "gmail")} :
        /\ tid # NoTokenId
        /\ ~StillValid(toks[tid], t)
        /\ toks[tid].refresh_token \notin {NoRefreshToken, Null}

\* the provider's possible answers; one stands for all when it is not asked
RefreshChoices(toks, conns, u, t) ==
    IF RefreshCalls(toks, conns, u, t) THEN RefreshResponses
    ELSE {[ok |-> FALSE, access_token |-> Null, refresh_token |-> Null]}

\* fetch_gmail_emails once authentication has answered a and the loop over
\* the listing, had it been reached, r
FetchOutcome(a, r, em, u, env, t) ==
       IF ~a.ok
        THEN [toks |-> a.toks, conns |-> a.conns, em |-> em, returned |-> <<>>,
              upserted |-> {}, authed |-> FALSE, called |-> a.called,
              completed |-> FALSE, got |-> {}, listed |-> <<>>]
       ELSE IF env.listFails
        THEN [toks |-> a.toks, conns |-> a.conns, em |-> em, returned |-> <<>>,
              upserted |-> {}, authed |-> TRUE, called |-> a.called,
              completed |-> FALSE, got |-> {}, listed |-> <<>>]
       ELSE IF r.failed
        THEN [toks |-> a.toks, conns |-> a.conns, em |-> r.em, returned |-> <<>>,
              upserted |-> r.upserted, authed |-> TRUE, called |-> a.called,
              completed |-> FALSE, got |-> r.got, listed |-> r.listed]
       ELSE [toks |-> a.toks, conns |-> UpdateLastSync(a.conns, u, "gmail", t),
             em |-> r.em, returned |-> r.returned, upserted |-> r.upserted,
             authed |-> TRUE, called |-> a.called, completed |-> TRUE,
             got |-> r.got, listed |-> r.listed]

\* GoogleService.fetch_gmail_emails: the tables it leaves, the list it
\* returns, the ids it upserted
FetchGmailEmails(toks, conns, em, u, max_results, only_new, env, t) ==
    FetchOutcome(
        GetAuthenticatedGmailService(toks, conns, u, env.refresh, t),
        IngestFrom([em |-> em, returned |-> <<>>, upserted |-> {}, got |-> {},
                    listed |-> ListMessages(env.mailbox,
                        IF only_new THEN MostRecentEmailDate(em, u) ELSE NoTime,
                        max_results),
                    failed |-> FALSE],
                   u,
                   ListMessages(env.mailbox,
                        IF only_new THEN MostRecentEmailDate(em, u) ELSE NoTime,
                        max_results),
                   1, only_new, env),
        em, u, env, t)

----------------------------------------------------------------------------
(* GoogleService: reply *)

\* GoogleService._format_full_email, of the columns the model keeps
FormatFullEmail(row) ==
    [gmail_id |-> row.gmail_id, thread_id |-> row.thread_id,
     date_sent |-> row.date_sent, labels |-> row.labels,
     is_unread |-> ~row.is_read, category |-> row.category]

\* GoogleService.get_single_email_from_db: the records it returns, one or
\* none; single() raises unless exactly one row matches, and the method then
\* returns None
GetSingleEmailFromDb(em, u, id) ==
    LET S == {i \in RowsOf(em, u) : em[i].gmail_id = id} IN
    IF Cardinality(S) = 1 THEN {FormatFullEmail(em[i]) : i \in S} ELSE {}

\* the ids the provider gives to sent messages, in the order it issues them
SentIds == <<"s1", "s2">>

\* the id messages().send() answers with: one the provider has not used
NewMessageId(em) ==
    LET used == {em[i].gmail_id : i \in 1..Len(em)}
        free == {k \in 1..Len(SentIds) : SentIds[k] \notin used}
    IN IF free = {} THEN Null
       ELSE SentIds[CHOOSE k \in free : \A j \in free : k <= j]

\* what the provider and the categorization do during one reply: the answer
\* to a refresh, the call that raises (getProfile, send, or none)
SendEnvs(refreshes, cats) ==
    [refresh : refreshes, fails : {"none", "profile", "send"}, cat : cats]

\* a variant of the record below that starts a thread of its own
SentEmailDataOwnThread(id, original, t) ==
    [id |-> id, thread_id |-> id, date |-> t, labels |-> "SENT",
     subject |-> "reply", from_email |-> "me", has_attachments |-> FALSE]

\* the EmailDetails send_email_reply builds for the message it sent
SentEmailData(id, original, t) ==
    [id |-> id, thread_id |-> original.thread_id, date |-> t, labels |-> "SENT",
     subject |-> "reply", from_email |-> "me", has_attachments |-> FALSE]

\* send_email_reply once authentication has answered a and the original has
\* been looked up (originals: one record or none); sent tells whether
\* messages().send() was called
ReplyOutcome(a, originals, em, u, env, t, id) ==
    LET same == [toks |-> a.toks, conns |-> a.conns, em |-> em,
                 called |-> a.called, id |-> Null]
    IN IF ~a.ok
        THEN same @@ [result |-> "error", sent |-> FALSE]
       ELSE IF originals = {}
        THEN same @@ [result |-> "error_not_found", sent |-> FALSE]
       ELSE IF env.fails = "profile"
        THEN same @@ [result |-> "error", sent |-> FALSE]
       ELSE IF env.fails = "send"
        THEN same @@ [result |-> "error", sent |-> TRUE]
       ELSE [toks |-> a.toks, conns |-> a.conns,
             em |-> SaveEmailCategorized(em, u,
                        SentEmailData(id, CHOOSE o \in originals : TRUE, t),
                        env.cat),
             called |-> a.called, id |-> id, result |-> "ok", sent |-> TRUE]

\* a variant of the method below that stores the reply before sending it
StoreBeforeSend(toks, conns, em, u, original_id, env, t) ==
    LET r == ReplyOutcome(
                GetAuthenticatedGmailService(toks, conns, u, env.refresh, t),
                GetSingleEmailFromDb(em, u, original_id), em, u,
                [env EXCEPT !.fails = "none"], t, NewMessageId(em))
    IN IF env.fails = "none" THEN r
       ELSE [r EXCEPT !.result = "error", !.id = Null,
                      !.sent = (env.fails = "send")]

\* GoogleService.send_email_reply: the tables it leaves, its result, the id
\* of the message sent
SendEmailReply(toks, conns, em, u, original_id, env, t) ==
    ReplyOutcome(
        GetAuthenticatedGmailService(toks, conns, u, env.refresh, t),
        GetSingleEmailFromDb(em, u, original_id), em, u, env, t,
        NewMessageId(em))

\* apis/inbox.sync_emails: the body of the HTTP 200 it answers with, given the
\* list fetch_gmail_emails returned
SyncEmails(returned) ==
    [message |-> "Successfully synced", emails_synced |-> Len(returned),
     source |-> "gmail_api"]

----------------------------------------------------------------------------
(* The state machine: one action per operation *)

\* the users whose requests the single-tenant specifications run
SpecUsers == {"u1"}

\* how far the clock advances at once: to the last minute before the Gmail
\* margin, by one minute, to the edge of the Slack buffer
GmailTickSteps == {1, TokenLifetimeMinutes - RefreshMarginMinutes - 1}
SlackTickSteps == {1, SlackLifetimeMinutes - SlackBufferMinutes - 1}
\* to the first minute of the Gmail margin
ReplyTickSteps == {TokenLifetimeMinutes - RefreshMarginMinutes}

\* what a callback request carried and what the provider answered to the
\* exchange; NoInput for every other operation
NoInput == [code |-> Null, state |-> Null, ok |-> FALSE, redirect |-> Null,
            cat |-> Null, original |-> Null, sent |-> FALSE, poll |-> FALSE,
            only_new |-> FALSE, listed |-> <<>>, got |-> {},
     checkFailAt |-> 0, column |-> Null]

CallbackInput(code, state, resp, redirect) ==
    [code |-> code, state |-> state, ok |-> resp.ok /\ resp.access_token # Null,
     redirect |-> redirect, cat |-> Null, original |-> Null, sent |-> FALSE,
     poll |-> FALSE, only_new |-> FALSE, listed |-> <<>>, got |-> {},
     checkFailAt |-> 0, column |-> Null]

Op(name, u, p, result, called, returned, upserted) ==
    [op |-> name, user |-> u, provider |-> p, result |-> result,
     called |-> called, returned |-> returned, upserted |-> upserted,
     input |-> NoInput, flip |-> 1 - lastOp.flip]

Idle == [pc |-> "idle"]

\* AuthService.__init__: self.user_auth_data = None
NoAuthData == [present |-> FALSE]

\* categorize_existing_emails.py before it is run.  Of batch_num the parity
\* is kept; the running totals are only printed.
ScriptIdle ==
    [pc |-> "idle", user |-> Null, batch_size |-> 0, batch_num |-> 1,
     processed |-> 0, successful |-> 0, failed |-> 0]

\* EmailPollingService.__init__: no polling task
InitOthers ==
    /\ polling_tasks = {}
    /\ refreshing = [u \in Users |-> Idle]
    /\ script = ScriptIdle
    /\ user_auth_data = NoAuthData
    /\ supabase_auth = [issued |-> [u \in Users |-> 0], valid |-> {}]
    /\ lastAuth = [op |-> "none", presented |-> Null, response |-> [status |-> 0]]

Init ==
    /\ now = 0
    /\ ticks = 0
    /\ oauth_tokens = <<>>
    /\ connections = [k \in Users \X Providers |-> NoRow]
    /\ emails = <<>>
    /\ saved = [u \in Users |-> {}]
    /\ lastOp = [op |-> "none", user |-> "none", provider |-> "none",
                 result |-> "none", called |-> FALSE, returned |-> <<>>,
                 upserted |-> {}, input |-> NoInput, flip |-> 0]
    /\ fetchers = [s \in {"sync", "poll"} |-> [pc |-> "idle"]]
    /\ InitOthers

Tick(steps) ==
    /\ ticks < MaxTicks
    /\ \E d \in steps : now' = now + d
    /\ ticks' = ticks + 1
    /\ UNCHANGED <<others, oauth_tokens, connections, emails, saved, lastOp, fetchers>>

\* exchange_code: GoogleService.handle_oauth_callback
OauthCallback(u) ==
    \E code \in {Null, "code"}, resp \in ExchangeResponses :
      \E r \in {HandleOauthCallback(oauth_tokens, connections, u, code, resp, now)} :
        /\ Len(r.toks) <= MaxTokens
        /\ oauth_tokens' = r.toks
        /\ connections' = r.conns
        /\ lastOp' = [Op("exchange_code", u, "gmail", r.result, r.called, <<>>, {})
                        EXCEPT !.input = CallbackInput(code, Null, resp, Null)]
        /\ UNCHANGED <<others, now, ticks, emails, saved, fetchers>>

\* ensure_fresh: GoogleService._refresh_token_if_needed
EnsureFresh(u) ==
    \E resp \in RefreshChoices(oauth_tokens, connections, u, now) :
      \E r \in {RefreshTokenIfNeeded(oauth_tokens, connections, u, resp, now)} :
        /\ oauth_tokens' = r.toks
        /\ connections' = r.conns
        /\ lastOp' = Op("ensure_fresh", u, "gmail",
                        IF r.ok THEN "true" ELSE "false", r.called, <<>>, {})
        /\ UNCHANGED <<others, now, ticks, emails, saved, fetchers>>

\* valid_token for Gmail, TokenManager.get_valid_token: it calls
\* GoogleService.refresh_access_token, which GoogleService does not define;
\* the AttributeError is caught and None is returned
ValidToken(u) ==
    /\ lastOp' = Op("valid_token", u, "gmail", "none", FALSE, <<>>, {})
    /\ UNCHANGED <<others, now, ticks, oauth_tokens, connections, emails, saved, fetchers>>

\* POST /settings/connections/{provider}/disconnect; for gmail this is
\* GoogleService.clear_tokens
Disconnect(u) ==
    \E p \in Providers :
      \E r \in {SettingsDisconnectRoute(oauth_tokens, connections, u, p)} :
        /\ oauth_tokens' = r.toks
        /\ connections' = r.conns
        /\ lastOp' = Op("disconnect", u, p, r.result, FALSE, <<>>, {})
        /\ UNCHANGED <<others, now, ticks, emails, saved, fetchers>>

\* fetch_gmail_emails(max_results, only_new) taken whole, the provider
\* behaving as env says
FetchBy(u, max_results, only_new, env, poll) ==
    \E r \in {FetchGmailEmails(oauth_tokens, connections, emails, u,
                                max_results, only_new, env, now)} :
        /\ oauth_tokens' = r.toks
        /\ connections' = r.conns
        /\ emails' = r.em
        /\ saved' = [saved EXCEPT ![u] = @ \cup r.upserted]
        /\ lastOp' = [Op("fetch", u, "gmail",
                          IF ~r.authed THEN "no_token"
                          ELSE IF r.completed THEN "list" ELSE "failed",
                          r.called, r.returned, r.upserted)
                        EXCEPT !.input.cat = env.cat, !.input.poll = poll,
                               !.input.only_new = only_new,
                               !.input.listed = r.listed, !.input.got = r.got,
                               !.input.checkFailAt = env.checkFailAt]
        /\ UNCHANGED <<now, ticks, fetchers>>

\* the same, called by a request
FetchWith(u, max_results, only_new, env) ==
    /\ FetchBy(u, max_results, only_new, env, FALSE)
    /\ UNCHANGED others

\* POST /inbox/emails/sync and the polling task: fetch_gmail_emails, against
\* one of the given provider mailboxes, the categorization doing one of cats
Fetch(u, mailboxes, cats) ==
    \E max_results \in 1..MaxResults, only_new \in BOOLEAN :
      \E env \in FetchEnvs(max_results, mailboxes,
                           RefreshChoices(oauth_tokens, connections, u, now), cats) :
        FetchWith(u, max_results, only_new, env)

\* the same fetch against a store that may raise
FetchStoreFailing(u, mailboxes, cats) ==
    \E max_results \in 1..MaxResults, only_new \in BOOLEAN :
      \E env \in StoreFailingEnvs(max_results, mailboxes,
                           RefreshChoices(oauth_tokens, connections, u, now), cats) :
        FetchWith(u, max_results, only_new, env)

\* POST /inbox/email/{email_id}/reply: GoogleService.send_email_reply.  The
\* reply is to a stored email or to an id that is not stored.
SendReply(u, cats) ==
    /\ NewMessageId(emails) # Null
    /\ \E original_id \in MsgIds \cup {SentIds[1]},
          env \in SendEnvs(RefreshChoices(oauth_tokens, connections, u, now), cats) :
        \E r \in {SendEmailReply(oauth_tokens, connections, emails, u,
                                  original_id, env, now)} :
          /\ oauth_tokens' = r.toks
          /\ connections' = r.conns
          /\ emails' = r.em
          /\ saved' = [saved EXCEPT ![u] =
                            IF r.result = "ok" THEN @ \cup {r.id} ELSE @]
          /\ lastOp' = [Op("send_reply", u, "gmail", r.result, r.called,
                            IF r.result = "ok" THEN <<r.id>> ELSE <<>>,
                            IF r.result = "ok" THEN {r.id} ELSE {})
                          EXCEPT !.input.cat = env.cat,
                                 !.input.original = original_id,
                                 !.input.sent = r.sent]
    /\ UNCHANGED <<others, now, ticks, fetchers>>

\* PUT /inbox/email/{email_id}/read: GoogleService.mark_email_as_read, by the
\* id of a row or by an id no row has; 404 when no row was updated
MarkEmailRead(u) ==
    /\ \E email_id \in 1..(Len(emails) + 1) :
        /\ emails' = MarkEmailAsRead(emails, u, email_id)
        /\ lastOp' = [Op("mark_email_as_read", u, "gmail",
                          IF email_id \in RowsOf(emails, u) THEN "message"
                                                             ELSE "http_404",
                          FALSE, <<>>, {})
                        EXCEPT !.input.original =
                                IF email_id \in RowsOf(emails, u)
                                    THEN emails[email_id].gmail_id ELSE Null]
    /\ UNCHANGED <<others, now, ticks, oauth_tokens, connections, saved, fetchers>>

\* the thread ids GET /inbox/ reports to the user
ListedThreadIds(ths) == {ths[i].thread_id : i \in 1..Len(ths)}

\* PUT /inbox/thread/{thread_id}/read: GoogleService.mark_thread_as_read, on
\* a thread id the inbox listing reported
MarkThreadRead(u) ==
    /\ \E thread_id \in ListedThreadIds(
                            GetInboxThreads(emails, u, DefaultThreadLimit, 0)) :
        /\ emails' = MarkThreadAsRead(emails, u, thread_id)
        /\ lastOp' = [Op("mark_thread_as_read", u, "gmail", "message",
                          FALSE, <<>>, {})
                        EXCEPT !.input.original = thread_id]
    /\ UNCHANGED <<others, now, ticks, oauth_tokens, connections, saved, fetchers>>

\* fetch_gmail_emails statement by statement, for calls that overlap: the
\* slots are the manual sync request and the polling task.  lastOp records
\* the operations taken whole and is left alone here.
Slots == {"sync", "poll"}

InFlight(u, only_new, msgs, failAt, cat) ==
    [pc |-> "loop", user |-> u, only_new |-> only_new, msgs |-> msgs, i |-> 1,
     failAt |-> failAt, cat |-> cat, returned |-> <<>>]

\* up to messages().list(): authentication, the query, the listing
FetchBegin(s, u, mailboxes) ==
    /\ fetchers[s] = Idle
    /\ \E max_results \in 1..MaxResults, only_new \in BOOLEAN :
        \E env \in FetchEnvs(max_results, mailboxes,
                             RefreshChoices(oauth_tokens, connections, u, now),
                             {CategorizerUnavailable}) :
          \E a \in {GetAuthenticatedGmailService(oauth_tokens, connections, u,
                                                  env.refresh, now)} :
          LET query == IF only_new THEN MostRecentEmailDate(emails, u) ELSE NoTime
              msgs == ListMessages(env.mailbox, query, max_results)
          IN /\ oauth_tokens' = a.toks
             /\ connections' = a.conns
             /\ fetchers' = IF a.ok /\ ~env.listFails
                    THEN [fetchers EXCEPT ![s] =
                            InFlight(u, only_new, msgs, env.failAt, env.cat)]
                    ELSE fetchers
    /\ UNCHANGED <<others, now, ticks, emails, saved, lastOp>>

\* the head of the loop body: with only_new, _email_exists_in_db decides
\* whether the message is skipped
FetchCheck(s) ==
    LET f == fetchers[s] IN
    /\ f.pc = "loop"
    /\ f.i <= Len(f.msgs)
    /\ fetchers' = [fetchers EXCEPT ![s] =
            IF f.only_new /\ EmailExistsInDb(emails, f.user, f.msgs[f.i])
                THEN [f EXCEPT !.i = @ + 1]
                ELSE [f EXCEPT !.pc = "save"]]
    /\ UNCHANGED <<others, now, ticks, oauth_tokens, connections, emails, saved, lastOp>>

\* messages().get(), which may raise and end the call, then the upsert
FetchSave(s) ==
    LET f == fetchers[s]
        d == ExtractEmailDetails(GmailMsg(f.msgs[f.i]))
    IN
    /\ f.pc = "save"
    /\ IF f.i = f.failAt
         THEN /\ fetchers' = [fetchers EXCEPT ![s] = Idle]
              /\ UNCHANGED <<emails, saved>>
         ELSE /\ emails' = SaveEmailCategorized(emails, f.user, d, f.cat)
              /\ saved' = [saved EXCEPT ![f.user] = @ \cup {d.id}]
              /\ fetchers' = [fetchers EXCEPT ![s] =
                    [f EXCEPT !.pc = "loop", !.i = @ + 1,
                              !.returned = Append(@, d.id)]]
    /\ UNCHANGED <<others, now, ticks, oauth_tokens, connections, lastOp>>

\* after the loop: _update_last_sync and the return
FetchEnd(s) ==
    LET f == fetchers[s] IN
    /\ f.pc = "loop"
    /\ f.i > Len(f.msgs)
    /\ connections' = UpdateLastSync(connections, f.user, "gmail", now)
    /\ fetchers' = [fetchers EXCEPT ![s] = Idle]
    /\ UNCHANGED <<others, now, ticks, oauth_tokens, emails, saved, lastOp>>

\* GET /slack-auth/callback -> SlackService.handle_oauth_callback
SlackOauthCallback(u) ==
    \E code \in {Null, "code"}, state \in {Null, u}, resp \in SlackResponses :
      \E r \in {SlackOauth2Callback(oauth_tokens, connections, code, state,
                                    resp, now)} :
        /\ Len(r.toks) <= MaxTokens
        /\ oauth_tokens' = r.toks
        /\ connections' = r.conns
        /\ lastOp' = [Op("exchange_code", u, "slack", r.result, r.called, <<>>, {})
                        EXCEPT !.input = CallbackInput(code, state, resp, r.redirect)]
        /\ UNCHANGED <<others, now, ticks, emails, saved, fetchers>>

\* SlackService.refresh_access_token
SlackEnsureFresh(u) ==
    LET r == SlackRefreshAccessToken(oauth_tokens, connections, u, now) IN
    /\ connections' = r.conns
    /\ lastOp' = Op("ensure_fresh", u, "slack",
                    IF r.ok THEN "true" ELSE "false", FALSE, <<>>, {})
    /\ UNCHANGED <<others, now, ticks, oauth_tokens, emails, saved, fetchers>>

\* ensure_fresh of either service, the store handing out expires_at as the
\* column does
EnsureFreshReading(u, column) ==
    \E resp \in RefreshChoices(oauth_tokens, connections, u, now) :
      \E r \in {RefreshTokenIfNeeded(TokensAsRead(oauth_tokens, column),
                                      connections, u, resp, now)} :
        /\ oauth_tokens' = TokensAfter(oauth_tokens,
                                TokensAsRead(oauth_tokens, column), r.toks)
        /\ connections' = r.conns
        /\ lastOp' = [Op("ensure_fresh", u, "gmail",
                          IF r.ok THEN "true" ELSE "false", r.called, <<>>, {})
                        EXCEPT !.input.column = column]
        /\ UNCHANGED <<others, now, ticks, emails, saved, fetchers>>

SlackEnsureFreshReading(u, column) ==
    \E r \in {SlackRefreshAccessToken(TokensAsRead(oauth_tokens, column),
                                      connections, u, now)} :
        /\ connections' = r.conns
        /\ lastOp' = [Op("ensure_fresh", u, "slack",
                          IF r.ok THEN "true" ELSE "false", FALSE, <<>>, {})
                        EXCEPT !.input.column = column]
        /\ UNCHANGED <<others, now, ticks, oauth_tokens, emails, saved, fetchers>>

\* _refresh_token_if_needed step by step, for a call that overlaps other
\* requests.  Up to creds.refresh(): the token is loaded, found to need a
\* refresh and to have a refresh token, and the provider answers resp.
RefreshBegin(u) ==
    /\ refreshing[u] = Idle
    /\ RefreshCalls(oauth_tokens, connections, u, now)
    /\ \E resp \in {r \in RefreshResponses : r.ok} :
        \E tid \in {GetTokenId(connections, oauth_tokens, u, "gmail")} :
            refreshing' = [refreshing EXCEPT ![u] =
                [pc |-> "called", tid |-> tid, tok |-> oauth_tokens[tid],
                 resp |-> resp, exp |-> UtcAt(now + TokenLifetimeMinutes)]]
    /\ UNCHANGED <<now, ticks, oauth_tokens, connections, emails, saved, lastOp,
                   fetchers, polling_tasks, script, signin>>

\* the rest of it: _save_tokens_to_db, which looks the token up through the
\* connection once more, and the return
RefreshSave(u) ==
    /\ refreshing[u] # Idle
    /\ \E f \in {refreshing[u]} :
        \E r \in {SaveTokensToDb(oauth_tokens, connections, u, f.resp.access_token,
                        RefreshTokenToStore(f.tok, f.resp), f.exp,
                        IF f.tok.scope \in {Null, ""} THEN GmailScope
                                                       ELSE f.tok.scope)} :
            /\ Len(r.toks) <= MaxTokens + 1
            /\ oauth_tokens' = r.toks
            /\ connections' = r.conns
            /\ lastOp' = Op("ensure_fresh", u, "gmail",
                            IF r.ok THEN "true" ELSE "false", TRUE, <<>>, {})
    /\ refreshing' = [refreshing EXCEPT ![u] = Idle]
    /\ UNCHANGED <<now, ticks, emails, saved, fetchers, polling_tasks, script,
                   signin>>

\* DELETE /slack-auth/disconnect
SlackDisconnect(u) ==
    LET r == SlackDisconnectRoute(connections, u) IN
    /\ connections' = r.conns
    /\ lastOp' = Op("disconnect", u, "slack", r.result, FALSE, <<>>, {})
    /\ UNCHANGED <<others, now, ticks, oauth_tokens, emails, saved, fetchers>>

\* The Gmail credential lifecycle; the provider mailbox is empty
\* EmailPollingService.get_active_users: the users whose gmail connection is
\* connected; the empty list when the query raises
GetActiveUsers(conns, ok) ==
    IF ok
        THEN {u \in Users : /\ conns[<<u, "gmail">>] # NoRow
                            /\ conns[<<u, "gmail">>].status = "connected"}
        ELSE {}

\* EmailPollingService.start_polling_for_user
StartPollingForUser(tasks, u) == IF u \in tasks THEN tasks ELSE tasks \cup {u}

KeepPollingForUser(tasks, u) == tasks

\* EmailPollingService.stop_polling_for_user: cancels the task, which waits
\* in asyncio.sleep, and forgets it
StopPollingForUser(tasks, u) == tasks \ {u}

\* the tasks after starting one for each user of active without a task
StartedFor(tasks, active) ==
    tasks \cup UNION {StartPollingForUser(tasks, u) : u \in active \ tasks}

\* the tasks after stopping the tasks of the users that are not in active
StoppedFor(tasks, active) ==
    {v \in tasks : \A u \in tasks \ active : v \in StopPollingForUser(tasks, u)}

\* max_results of the polling task's fetch
PollMaxResults == 50

\* the provider mailbox the polling task reads
PollMailboxes == {{"m1"}}

\* one round of the loop of EmailPollingService.start_polling_all_users
PollingLoop(ok) ==
    /\ polling_tasks' = StoppedFor(
            StartedFor(polling_tasks, GetActiveUsers(connections, ok)),
            GetActiveUsers(connections, ok))
    /\ UNCHANGED <<now, ticks, oauth_tokens, connections, emails, saved, lastOp,
                   fetchers, refreshing, script, signin>>

\* one round of EmailPollingService._poll_user_emails, the task of user u:
\* fetch_gmail_emails(max_results=50, only_new=True)
PollUserEmails(u) ==
    /\ u \in polling_tasks
    /\ \E env \in FetchEnvs(PollMaxResults, PollMailboxes,
                             RefreshChoices(oauth_tokens, connections, u, now),
                             {CategorizerUnavailable}) :
            FetchBy(u, PollMaxResults, TRUE, env, TRUE)
    /\ UNCHANGED others

Next ==
    \/ Tick(GmailTickSteps)
    \/ \E u \in SpecUsers : OauthCallback(u)
    \/ \E u \in SpecUsers : EnsureFresh(u)
    \/ \E u \in SpecUsers : ValidToken(u)
    \/ \E u \in SpecUsers : Disconnect(u)
    \/ \E u \in SpecUsers : Fetch(u, {{}}, {CategorizerUnavailable})

Spec == Init /\ [][Next]_vars

\* The Slack credential lifecycle, next to the Gmail callback
NextSlack ==
    \/ Tick(SlackTickSteps)
    \/ \E u \in SpecUsers : SlackOauthCallback(u)
    \/ \E u \in SpecUsers : SlackEnsureFresh(u)
    \/ \E u \in SpecUsers : SlackDisconnect(u)
    \/ \E u \in SpecUsers : Disconnect(u)
    \/ \E u \in SpecUsers : OauthCallback(u)

SpecSlack == Init /\ [][NextSlack]_vars

\* Gmail ingestion: connecting, disconnecting and fetching, the clock standing
NextMail ==
    \/ \E u \in SpecUsers : OauthCallback(u)
    \/ \E u \in SpecUsers : Disconnect(u)
    \/ \E u \in SpecUsers : Fetch(u, SUBSET MsgIds, {CategorizerUnavailable})

SpecMail == Init /\ [][NextMail]_vars

\* Gmail ingestion with the categorization at work
NextCategorize ==
    \/ \E u \in SpecUsers : OauthCallback(u)
    \/ \E u \in SpecUsers :
            Fetch(u, {{"m1", "m2"}}, CategorizationOutcomes \ {"raised"})
    \/ \E u \in SpecUsers : SendReply(u, {"raised", "OTHER"})

SpecCategorize == Init /\ [][NextCategorize]_vars

\* a user's state after two callbacks (the second one links the token to
\* the connection) and a fetch of the mailbox {m1, m3}
InitFetched ==
    /\ now = 0
    /\ ticks = 0
    /\ oauth_tokens = [i \in 1..2 |->
            TokenRow("gmail", "at1", "rt1", UtcAt(TokenLifetimeMinutes), GmailScope)]
    /\ connections = [k \in Users \X Providers |->
            IF k = <<"u1", "gmail">> THEN ConnRow("connected", 2, 0) ELSE NoRow]
    /\ emails = SaveEmailToDb(
                    SaveEmailToDb(<<>>, "u1", ExtractEmailDetails(GmailMsg("m3"))),
                    "u1", ExtractEmailDetails(GmailMsg("m1")))
    /\ saved = [u \in Users |-> IF u = "u1" THEN {"m1", "m3"} ELSE {}]
    /\ lastOp = [op |-> "fetch", user |-> "u1", provider |-> "gmail",
                 result |-> "list", called |-> FALSE, returned |-> <<"m3", "m1">>,
                 upserted |-> {"m1", "m3"},
                 input |-> [NoInput EXCEPT !.cat = CategorizerUnavailable,
                                           !.listed = <<"m3", "m1">>,
                                           !.got = {"m1", "m3"}],
                 flip |-> 1]
    /\ fetchers = [s \in {"sync", "poll"} |-> [pc |-> "idle"]]
    /\ InitOthers

\* Replies to the emails of a fetched mailbox: the clock, replying,
\* disconnecting
NextReply ==
    \/ Tick(ReplyTickSteps)
    \/ \E u \in SpecUsers : SendReply(u, {"raised", "OTHER"})
    \/ \E u \in SpecUsers : Disconnect(u)

SpecReply == InitFetched /\ [][NextReply]_vars

\* a user's state after two callbacks, at a time after the dates of all the
\* messages of the mailbox
InitInbox ==
    /\ now = 2 * GmailMsg("m3").internal
    /\ ticks = 0
    /\ oauth_tokens = [i \in 1..2 |->
            TokenRow("gmail", "at1", "rt1",
                     UtcAt(2 * GmailMsg("m3").internal + TokenLifetimeMinutes),
                     GmailScope)]
    /\ connections = [k \in Users \X Providers |->
            IF k = <<"u1", "gmail">> THEN ConnRow("connected", 2, NoTime) ELSE NoRow]
    /\ emails = <<>>
    /\ saved = [u \in Users |-> {}]
    /\ lastOp = [op |-> "exchange_code", user |-> "u1", provider |-> "gmail",
                 result |-> "message", called |-> TRUE, returned |-> <<>>,
                 upserted |-> {},
                 input |-> CallbackInput("code", Null,
                            [ok |-> TRUE, access_token |-> "at1"], Null),
                 flip |-> 1]
    /\ fetchers = [s \in {"sync", "poll"} |-> [pc |-> "idle"]]
    /\ InitOthers

\* the provider mailboxes the inbox is filled from: the messages of thread T1
\* arrive in either order, m4 (no date) and m5 (no threadId) among them
InboxMailboxes == {{"m1"}, {"m1", "m2"}, {"m4"}, {"m3", "m5"}}

\* The inbox as fetches fill it
NextThreads ==
    \/ \E u \in SpecUsers : Fetch(u, InboxMailboxes, {CategorizerUnavailable})

SpecThreads == InitInbox /\ [][NextThreads]_vars

\* The inbox and its read flags: fetching, replying, marking as read
NextRead ==
    \/ \E u \in SpecUsers :
            Fetch(u, {{"m1"}, {"m1", "m2"}, {"m5"}}, {CategorizerUnavailable})
    \/ \E u \in SpecUsers : SendReply(u, {CategorizerUnavailable})
    \/ \E u \in SpecUsers : MarkEmailRead(u)
    \/ \E u \in SpecUsers : MarkThreadRead(u)

SpecRead == InitInbox /\ [][NextRead]_vars

\* the provider mailbox before and after m3 arrives
GrowingMailbox == {{"m1", "m2"}, {"m1", "m2", "m3"}}

\* Overlapping fetches of one user: the manual sync and the polling task
NextFetchers ==
    \/ \E s \in Slots, u \in SpecUsers : FetchBegin(s, u, GrowingMailbox)
    \/ \E s \in Slots : FetchCheck(s)
    \/ \E s \in Slots : FetchSave(s)
    \/ \E s \in Slots : FetchEnd(s)

\* a user's state after a callback, a disconnect and a second callback
InitConnected ==
    /\ now = 0
    /\ ticks = 0
    /\ oauth_tokens = [i \in 1..2 |->
            TokenRow("gmail", "at1", "rt1", UtcAt(TokenLifetimeMinutes), GmailScope)]
    /\ connections = [k \in Users \X Providers |->
            IF k = <<"u1", "gmail">> THEN ConnRow("connected", 2, NoTime) ELSE NoRow]
    /\ emails = <<>>
    /\ saved = [u \in Users |-> {}]
    /\ lastOp = [op |-> "exchange_code", user |-> "u1", provider |-> "gmail",
                 result |-> "message", called |-> TRUE, returned |-> <<>>,
                 upserted |-> {},
                 input |-> CallbackInput("code", Null,
                            [ok |-> TRUE, access_token |-> "at1"], Null),
                 flip |-> 1]
    /\ fetchers = [s \in {"sync", "poll"} |-> [pc |-> "idle"]]
    /\ InitOthers

SpecFetchers == InitConnected /\ [][NextFetchers]_vars

\* two users after two callbacks each, at a time after the dates of all the
\* messages of the mailbox
InitTenants ==
    /\ now = 2 * GmailMsg("m3").internal
    /\ ticks = 0
    /\ oauth_tokens = [i \in 1..4 |->
            TokenRow("gmail", "at1", "rt1",
                     UtcAt(2 * GmailMsg("m3").internal + TokenLifetimeMinutes),
                     GmailScope)]
    /\ connections = [k \in Users \X Providers |->
            IF k = <<"u1", "gmail">> THEN ConnRow("connected", 2, NoTime)
            ELSE IF k = <<"u2", "gmail">> THEN ConnRow("connected", 4, NoTime)
            ELSE NoRow]
    /\ emails = <<>>
    /\ saved = [u \in Users |-> {}]
    /\ lastOp = [op |-> "exchange_code", user |-> "u2", provider |-> "gmail",
                 result |-> "message", called |-> TRUE, returned |-> <<>>,
                 upserted |-> {},
                 input |-> CallbackInput("code", Null,
                            [ok |-> TRUE, access_token |-> "at1"], Null),
                 flip |-> 0]
    /\ fetchers = [s \in {"sync", "poll"} |-> [pc |-> "idle"]]
    /\ InitOthers

\* the mailboxes of the two users hold messages with the same ids
TenantMailboxes == {{"m1"}, {"m1", "m2"}}

\* Two users at their inboxes: fetching and marking as read
NextTenants ==
    \/ \E u \in Users : Fetch(u, TenantMailboxes, {CategorizerUnavailable})
    \/ \E u \in Users : MarkEmailRead(u)
    \/ \E u \in Users : MarkThreadRead(u)

SpecTenants == InitTenants /\ [][NextTenants]_vars

\* the provider mailboxes of the fetches against a failing store
StoreMailboxes == {{"m1"}, {"m1", "m2"}, {"m2", "m3"}}

\* Gmail ingestion against a store whose queries and upserts may raise
NextStore ==
    \/ \E u \in SpecUsers :
            FetchStoreFailing(u, StoreMailboxes, {CategorizerUnavailable})

SpecStore == InitInbox /\ [][NextStore]_vars

\* The refresh decision of both services, over both kinds of column
NextZones ==
    \/ Tick(GmailTickSteps \cup SlackTickSteps)
    \/ \E u \in SpecUsers : OauthCallback(u)
    \/ \E u \in SpecUsers : SlackOauthCallback(u)
    \/ \E u \in SpecUsers, column \in TimestampColumns :
            EnsureFreshReading(u, column)
    \/ \E u \in SpecUsers, column \in TimestampColumns :
            SlackEnsureFreshReading(u, column)

SpecZones == Init /\ [][NextZones]_vars

\* the rows batch_categorize_emails and get_uncategorized_count select
Uncategorized(em, u) == {i \in RowsOf(em, u) : em[i].category = Null}

\* .is_("category", "null").limit(limit): the query gives no order, so any
\* limit of the rows, or all of them when there are fewer
BatchesOf(em, u, limit) ==
    {S \in SUBSET Uncategorized(em, u) :
        Cardinality(S) = IF Cardinality(Uncategorized(em, u)) < limit
                            THEN Cardinality(Uncategorized(em, u)) ELSE limit}

\* what categorize_email_with_metadata and the update do for one email of a
\* batch: raise, give no category, or store one
BatchOutcomes == CategorizationOutcomes \ {CategorizerUnavailable}

\* EmailCategorizationService.batch_categorize_emails once the query has
\* selected the rows S and the categorization of row i does out[i]
BatchCategorizeEmails(em, u, S, out) ==
    [em |-> [i \in 1..Len(em) |->
                IF i \in S /\ out[i] \notin CategorizationFailures
                    THEN [em[i] EXCEPT !.category = out[i]]
                ELSE em[i]],
     processed |-> Cardinality(S),
     successful |-> Cardinality({i \in S : out[i] \notin CategorizationFailures}),
     failed |-> Cardinality({i \in S : out[i] \in CategorizationFailures})]

\* batch_categorize_emails when the query raises
BatchQueryFailed(em) ==
    [em |-> em, processed |-> 0, successful |-> 0, failed |-> 0]

\* main() up to the loop: nothing to do when no email is uncategorized
ScriptStart(u) ==
    /\ script.pc = "idle"
    /\ \E batch_size \in 1..MaxBatchSize :
        script' = [ScriptIdle EXCEPT
                    !.pc = IF Uncategorized(emails, u) = {} THEN "done" ELSE "loop",
                    !.user = u, !.batch_size = batch_size]
    /\ UNCHANGED <<now, ticks, oauth_tokens, connections, emails, saved, lastOp,
                   fetchers, polling_tasks, refreshing, signin>>

\* one round of the while True loop of main(): the batch, the counters, the
\* test of batch_processed
ScriptBatch ==
    /\ script.pc = "loop"
    /\ \E r \in {BatchQueryFailed(emails)} \cup
                {BatchCategorizeEmails(emails, script.user, S, out) :
                    <<S, out>> \in
                        UNION {{S1} \X [S1 -> BatchOutcomes] :
                            S1 \in BatchesOf(emails, script.user, script.batch_size)}} :
        /\ emails' = r.em
        /\ script' = [script EXCEPT
                        !.pc = IF r.processed = 0 THEN "done" ELSE "loop",
                        !.batch_num = IF r.processed = 0 THEN @ ELSE 1 - @,
                        !.processed = r.processed,
                        !.successful = r.successful,
                        !.failed = r.failed]
    /\ UNCHANGED <<now, ticks, oauth_tokens, connections, saved, lastOp,
                   fetchers, polling_tasks, refreshing, signin>>

\* the mailbox is ingested without categories, then the script is run
NextBatches ==
    \/ \E u \in SpecUsers :
            /\ script.pc = "idle"
            /\ Fetch(u, {{"m1"}, {"m1", "m2"}}, {CategorizerUnavailable})
    \/ \E u \in SpecUsers : ScriptStart(u)
    \/ ScriptBatch

\* the script is a sequential program: it keeps taking its next round
SpecBatches == InitInbox /\ [][NextBatches]_vars /\ WF_vars(ScriptBatch)

\* the session Supabase Auth issues to user u as its g-th
Session(u, g) ==
    [access_token |-> <<"access", u, g>>, refresh_token |-> <<"refresh", u, g>>,
     user |-> u]

\* UserAuthData.to_dict
ToDict(data) ==
    [access_token |-> data.access_token, refresh_token |-> data.refresh_token,
     token_type |-> "bearer", user |-> data.user]

\* AuthService.refresh_token once refresh_session has answered session: the
\* stored auth data, when there is one, takes the new tokens and is returned
RefreshTokenOf(data, session) ==
    IF data.present
        THEN LET d == [data EXCEPT !.access_token = session.access_token,
                                   !.refresh_token = session.refresh_token]
             IN [data |-> d, response |-> ToDict(d)]
    ELSE [data |-> data,
          response |-> [access_token |-> session.access_token,
                        refresh_token |-> session.refresh_token,
                        token_type |-> "bearer", user |-> Null]]

\* POST /auth/login: AuthService.login_with_email_password, with the right
\* password or a wrong one
AuthLogin(u) ==
    /\ \E ok \in BOOLEAN :
        IF ok
            THEN /\ supabase_auth.issued[u] < MaxSessions
                 /\ \E s \in {Session(u, supabase_auth.issued[u] + 1)} :
                    /\ supabase_auth' = [issued |-> [supabase_auth.issued EXCEPT ![u] = @ + 1],
                                         valid |-> supabase_auth.valid \cup {s.refresh_token}]
                    /\ user_auth_data' = [present |-> TRUE,
                                          access_token |-> s.access_token,
                                          refresh_token |-> s.refresh_token,
                                          user |-> s.user]
                    /\ lastAuth' = [op |-> "login", presented |-> u,
                                    response |-> [status |-> 200,
                                                  body |-> ToDict(user_auth_data')]]
        ELSE /\ lastAuth' = [op |-> "login", presented |-> u,
                             response |-> [status |-> 401]]
             /\ UNCHANGED <<user_auth_data, supabase_auth>>
    /\ UNCHANGED <<now, ticks, oauth_tokens, connections, emails, saved, lastOp,
                   fetchers, polling_tasks, refreshing, script>>

\* POST /auth/refresh: AuthService.refresh_token, with a refresh token that
\* was issued to u at some time; Supabase Auth rotates a valid one
AuthRefresh(u) ==
    /\ \E g \in 1..supabase_auth.issued[u] :
        \E rt \in {Session(u, g).refresh_token} :
          IF rt \in supabase_auth.valid
            THEN /\ supabase_auth.issued[u] < MaxSessions
                 /\ \E r \in {RefreshTokenOf(user_auth_data,
                                    Session(u, supabase_auth.issued[u] + 1))} :
                    /\ supabase_auth' = [issued |-> [supabase_auth.issued EXCEPT ![u] = @ + 1],
                                         valid |-> (supabase_auth.valid \ {rt})
                                            \cup {Session(u, supabase_auth.issued[u] + 1).refresh_token}]
                    /\ user_auth_data' = r.data
                    /\ lastAuth' = [op |-> "refresh", presented |-> rt,
                                    response |-> [status |-> 200,
                                                  body |-> r.response]]
          ELSE /\ lastAuth' = [op |-> "refresh", presented |-> rt,
                               response |-> [status |-> 401]]
               /\ UNCHANGED <<user_auth_data, supabase_auth>>
    /\ UNCHANGED <<now, ticks, oauth_tokens, connections, emails, saved, lastOp,
                   fetchers, polling_tasks, refreshing, script>>

\* Two users signing in and refreshing through the one auth_service
NextAuth ==
    \/ \E u \in Users : AuthLogin(u)
    \/ \E u \in Users : AuthRefresh(u)

SpecAuth == Init /\ [][NextAuth]_vars

\* A refresh in flight next to disconnecting: the clock reaches the margin
NextRace ==
    \/ Tick(ReplyTickSteps)
    \/ \E u \in SpecUsers : EnsureFresh(u)
    \/ \E u \in SpecUsers : RefreshBegin(u)
    \/ \E u \in SpecUsers : RefreshSave(u)
    \/ \E u \in SpecUsers : Disconnect(u)

SpecRace == InitConnected /\ [][NextRace]_vars

\* The polling service next to connecting and disconnecting.  The loop of
\* start_polling_all_users runs for as long as the service does, so a round
\* in which the store answers is taken again and again.
NextPolling ==
    \/ \E u \in SpecUsers : OauthCallback(u)
    \/ \E u \in SpecUsers : Disconnect(u)
    \/ \E ok \in BOOLEAN : PollingLoop(ok)
    \/ \E u \in SpecUsers : PollUserEmails(u)

SpecPolling == Init /\ [][NextPolling]_vars /\ WF_vars(PollingLoop(TRUE))

----------------------------------------------------------------------------
(* Properties *)

\* the step is the completion of operation op by u on p, taken whole
StepOf(op, u, p) ==
    /\ lastOp'.flip # lastOp.flip
    /\ lastOp'.op = op
    /\ lastOp'.user = u
    /\ lastOp'.provider = p

\* the gmail ids of the stored emails of u
StoredIds(u) == {emails[i].gmail_id : i \in RowsOf(emails, u)}

NoDuplicateKeys ==
    \A i, j \in 1..Len(emails) :
        (emails[i].user_id = emails[j].user_id
            /\ emails[i].gmail_id = emails[j].gmail_id) => i = j

\* C1: whatever fetches a user has made, the emails table holds exactly one
\* row per distinct message id passed to the upsert: the number of the
\* user's rows equals the number of distinct ids, and no two rows share
\* (user_id, gmail_id).
C1_OneRowPerMessage ==
    /\ \A u \in Users : Cardinality(RowsOf(emails, u)) = Cardinality(saved[u])
    /\ \A u \in Users : StoredIds(u) = saved[u]
    /\ NoDuplicateKeys

\* the last fetch upserted a message whose row is older than the row of a
\* message it did not touch: the message was ingested again
C1_Witness ==
    /\ lastOp.op = "fetch"
    /\ \E i, j \in 1..Len(emails) :
        /\ i < j
        /\ emails[i].gmail_id \in lastOp.upserted
        /\ emails[j].gmail_id \notin lastOp.upserted
        /\ emails[i].user_id = lastOp.user
        /\ emails[j].user_id = lastOp.user

\* C2: in every reachable state a connection with status connected has a
\* non-null oauth_token_id that names an existing credential.
C2_ConnectedHasCredential ==
    \A u \in Users, p \in Providers :
        Conn(u, p).status = "connected" =>
            /\ Conn(u, p).oauth_token_id # NoTokenId
            /\ TokenExists(Conn(u, p).oauth_token_id)

\* the credential of u's Gmail connection has more than the margin left
MoreThanMarginLeft(u) ==
    LET tid == GetTokenId(connections, oauth_tokens, u, "gmail") IN
    /\ tid # NoTokenId
    /\ Instant(EnsureUtc(oauth_tokens[tid].expires_at)) - now > RefreshMarginMinutes

\* C3: when the stored credential has more than the 5 minute margin left,
\* ensure_fresh returns true, makes no refresh call to the provider and
\* writes nothing to the token store (nor does the ensure_fresh inside fetch).
C3_NoRefreshOutsideMargin ==
    [][\A u \in Users :
        /\ (MoreThanMarginLeft(u) /\ StepOf("ensure_fresh", u, "gmail")) =>
                /\ lastOp'.result = "true"
                /\ ~lastOp'.called
                /\ oauth_tokens' = oauth_tokens
        /\ (MoreThanMarginLeft(u) /\ StepOf("fetch", u, "gmail")) =>
                /\ ~lastOp'.called
                /\ oauth_tokens' = oauth_tokens]_vars

\* ensure_fresh has answered true for a credential one minute outside the margin
C3_Witness ==
    /\ lastOp.op = "ensure_fresh"
    /\ lastOp.result = "true"
    /\ ~lastOp.called
    /\ LET tid == GetTokenId(connections, oauth_tokens, lastOp.user, "gmail") IN
        /\ tid # NoTokenId
        /\ Instant(EnsureUtc(oauth_tokens[tid].expires_at)) - now
                = RefreshMarginMinutes + 1

\* the credential of u's connection to p is inside the margin or expired, and
\* has no refresh token
ExpiringWithoutRefreshToken(u, p) ==
    LET tid == GetTokenId(connections, oauth_tokens, u, p) IN
    /\ tid # NoTokenId
    /\ Instant(EnsureUtc(oauth_tokens[tid].expires_at)) - now <= RefreshMarginMinutes
    /\ oauth_tokens[tid].refresh_token \in {NoRefreshToken, Null}

\* C4: ensure_fresh on a credential inside the margin or expired, with no
\* refresh token, returns false, makes no refresh call, and moves the
\* connection from connected to refresh_required.
C4_NoRefreshTokenMarksRefreshRequired ==
    [][\A u \in Users, p \in Providers :
        (/\ ExpiringWithoutRefreshToken(u, p)
         /\ Conn(u, p).status = "connected"
         /\ StepOf("ensure_fresh", u, p)) =>
            /\ lastOp'.result = "false"
            /\ ~lastOp'.called
            /\ connections'[<<u, p>>].status = "refresh_required"]_vars

\* the refresh tokens the provider issues at a refresh
IssuedAtRefresh == {r.refresh_token : r \in RefreshResponses} \ {Null}

\* C5: after a successful refresh by ensure_fresh the stored refresh token is
\* the one stored before, unless the provider issued a new one; the refresh
\* replaces only the access token and the expiry, on the same record.
C5_RefreshKeepsRefreshToken ==
    [][\A u \in Users :
        LET tid == GetTokenId(connections, oauth_tokens, u, "gmail") IN
        (/\ StepOf("ensure_fresh", u, "gmail")
         /\ lastOp'.called
         /\ lastOp'.result = "true") =>
            /\ tid # NoTokenId
            /\ Len(oauth_tokens') = Len(oauth_tokens)
            /\ \A i \in 1..Len(oauth_tokens) :
                    i # tid => oauth_tokens'[i] = oauth_tokens[i]
            /\ \/ oauth_tokens'[tid].refresh_token = oauth_tokens[tid].refresh_token
               \/ oauth_tokens'[tid].refresh_token \in IssuedAtRefresh
            /\ oauth_tokens'[tid].provider = oauth_tokens[tid].provider
            /\ oauth_tokens'[tid].scope = oauth_tokens[tid].scope
            /\ connections'[<<u, "gmail">>].oauth_token_id = tid]_vars

\* a refresh has replaced the access token and the refresh token is the one
\* the code exchange stored
C5_Witness ==
    /\ lastOp.op = "ensure_fresh"
    /\ lastOp.called
    /\ lastOp.result = "true"
    /\ LET tid == GetTokenId(connections, oauth_tokens, lastOp.user, "gmail") IN
        /\ tid # NoTokenId
        /\ oauth_tokens[tid].access_token = "at2"
        /\ oauth_tokens[tid].refresh_token = "rt1"
        /\ Instant(oauth_tokens[tid].expires_at) = now + TokenLifetimeMinutes

\* C6: after disconnect (clear_tokens) for a user whose connection refers to
\* a credential, that credential is gone from the token store and the
\* connection is disconnected with a null credential reference.
C6_DisconnectDeletesCredential ==
    [][\A u \in Users :
        LET tid == GetTokenId(connections, oauth_tokens, u, "gmail") IN
        (tid # NoTokenId /\ StepOf("disconnect", u, "gmail")) =>
            /\ oauth_tokens'[tid] = Deleted
            /\ connections'[<<u, "gmail">>].status = "disconnected"
            /\ connections'[<<u, "gmail">>].oauth_token_id = NoTokenId]_vars

\* C7: disconnect is idempotent: every disconnect of (u, p), the second of
\* two in a row and one with nothing connected included, returns a
\* success-shaped result and leaves the connection, if there is a record of
\* it, disconnected; a second disconnect in a row leaves the stored state as
\* the first left it.
C7_DisconnectIdempotent ==
    [][\A u \in Users, p \in Providers :
        StepOf("disconnect", u, p) =>
            /\ lastOp'.result = "message"
            /\ connections'[<<u, p>>].status \in {"disconnected", "no_row"}
            /\ (lastOp.op = "disconnect" /\ lastOp.user = u /\ lastOp.provider = p) =>
                    /\ oauth_tokens' = oauth_tokens
                    /\ connections' = connections]_vars

\* C8: a disconnected connection has no automatic outgoing transition: only
\* a successful exchange_code changes its status or gives it a credential
\* reference, and disconnect from any status ends in disconnected.
C8_DisconnectedIsTerminal ==
    [][\A u \in Users, p \in Providers :
        /\ (Conn(u, p).status = "disconnected"
                /\ ~(StepOf("exchange_code", u, p) /\ lastOp'.result = "message")) =>
                    /\ connections'[<<u, p>>].status = "disconnected"
                    /\ connections'[<<u, p>>].oauth_token_id = NoTokenId
        /\ (Conn(u, p).status = "disconnected"
                /\ StepOf("exchange_code", u, p) /\ lastOp'.result = "message") =>
                    connections'[<<u, p>>].status = "connected"
        /\ (Conn(u, p).status \in ConnectionStatus /\ StepOf("disconnect", u, p)) =>
                    connections'[<<u, p>>].status = "disconnected"]_vars

\* C9: when two fetches of one user overlap, statement by statement, the
\* emails table has at most one row per (user_id, gmail_id) and holds every
\* message either call has upserted.
C9_OverlappingFetchesSafe ==
    /\ NoDuplicateKeys
    /\ \A u \in Users : saved[u] \subseteq StoredIds(u)

Range(seq) == {seq[i] : i \in 1..Len(seq)}

\* both calls run with only_new, both passed the exists-check for the same
\* message and both have upserted it
C9_Witness ==
    /\ fetchers["sync"].pc # "idle"
    /\ fetchers["poll"].pc # "idle"
    /\ fetchers["sync"].user = fetchers["poll"].user
    /\ fetchers["sync"].only_new
    /\ fetchers["poll"].only_new
    /\ Range(fetchers["sync"].returned) \cap Range(fetchers["poll"].returned) # {}

\* the provider when nothing goes wrong: it lists m1 and m2
ListsM1M2 ==
    [refresh |-> [ok |-> FALSE, access_token |-> Null, refresh_token |-> Null],
     mailbox |-> {"m1", "m2"}, listFails |-> FALSE, failAt |-> 0,
     cat |-> CategorizerUnavailable, checkFailAt |-> 0, saveFailAt |-> 0]

\* C10: for a user with no connection, a successful code exchange (access
\* token, refresh token, one hour) leaves the connection connected; the
\* following fetch(max_results=2) against a listing of m1 and m2 (thread T1,
\* sent at 100 < 1500) stores exactly two emails of thread T1; and
\* list_threads then returns one thread with email_count 2 and
\* latest_date_sent 1500.
C10_ConnectFetchList ==
    [][\A u \in Users :
        /\ (Conn(u, "gmail") = NoRow /\ StepOf("exchange_code", u, "gmail")
                /\ lastOp'.result = "message") =>
                    connections'[<<u, "gmail">>].status = "connected"
        /\ (/\ lastOp.op = "exchange_code"
            /\ lastOp.user = u
            /\ lastOp.result = "message"
            /\ Len(oauth_tokens) = 1
            /\ oauth_tokens[1].refresh_token = "rt1"
            /\ RowsOf(emails, u) = {}
            /\ FetchWith(u, 2, FALSE, ListsM1M2)) =>
                /\ Cardinality(RowsOf(emails', u)) = 2
                /\ \A i \in RowsOf(emails', u) : emails'[i].thread_id = "T1"
                /\ LET ths == GetInboxThreads(emails', u, DefaultThreadLimit, 0) IN
                    /\ Len(ths) = 1
                    /\ ths[1].thread_id = "T1"
                    /\ ths[1].email_count = 2
                    /\ ths[1].latest_date_sent = GmailMsg("m2").date]_vars

\* C11: for a user with no connection, or whose connection leads to no
\* stored credential, fetch returns the empty list and changes nothing: no
\* provider call, no email written, no credential written, last_sync_at and
\* the rest of the connection untouched.
C11_FetchWithoutCredentialHasNoEffect ==
    [][\A u \in Users :
        (GetTokenId(connections, oauth_tokens, u, "gmail") = NoTokenId
            /\ StepOf("fetch", u, "gmail")) =>
                /\ lastOp'.returned = <<>>
                /\ lastOp'.result = "no_token"
                /\ ~lastOp'.called
                /\ lastOp'.upserted = {}
                /\ emails' = emails
                /\ saved' = saved
                /\ oauth_tokens' = oauth_tokens
                /\ connections' = connections]_vars

\* a fetch has returned for a user whose connection row exists but leads to
\* no credential, while emails of an earlier connection are stored
C11_Witness ==
    /\ lastOp.op = "fetch"
    /\ lastOp.result = "no_token"
    /\ Conn(lastOp.user, "gmail") # NoRow
    /\ GetTokenId(connections, oauth_tokens, lastOp.user, "gmail") = NoTokenId
    /\ RowsOf(emails, lastOp.user) # {}

\* C12: what the caller of sync gets for a user with no valid token (no
\* credential, or an expired one that cannot be refreshed) differs from what
\* it gets for a user with a valid token whose provider lists no messages.
C12_NoTokenDistinguishable ==
    (lastOp.op = "fetch" /\ lastOp.result = "no_token") =>
        /\ lastOp.returned # <<>>
        /\ SyncEmails(lastOp.returned) # SyncEmails(<<>>)

\* C13: a callback that carries no code, no state (Slack, where the state
\* names the user), or whose exchange the provider rejects or fails, ends in
\* an error outcome (an error result or a redirect with an error parameter)
\* and leaves the token table and the connections as they were; without a
\* code or a state the exchange is not attempted.
FailingCallback(i, p) ==
    \/ i.code = Null
    \/ p = "slack" /\ i.state = Null
    \/ ~i.ok

CategoryOf(em, u, id) ==
    LET i == CHOOSE x \in RowsOf(em, u) : em[x].gmail_id = id IN em[i].category

C14_CategorizationFailureStillSaves ==
    [][\A u \in Users :
        ((StepOf("fetch", u, "gmail") \/ StepOf("send_reply", u, "gmail"))
            /\ lastOp'.input.cat \in CategorizationFailures) =>
                /\ \A i \in 1..Len(lastOp'.returned) :
                        lastOp'.returned[i] \in lastOp'.upserted
                /\ \A id \in lastOp'.upserted :
                    /\ EmailExistsInDb(emails', u, id)
                    /\ id \in saved'[u]
                    /\ CategoryOf(emails', u, id) =
                            IF EmailExistsInDb(emails, u, id)
                                THEN CategoryOf(emails, u, id) ELSE Null]_vars

\* a fetch whose categorization failed stored a new email without a category
\* and upserted one that had been categorized before, next to a reply stored
\* without a category
C14_Witness ==
    /\ lastOp.op = "fetch"
    /\ lastOp.input.cat \in CategorizationFailures
    /\ lastOp.result = "list"
    /\ \E a, b \in lastOp.upserted :
            /\ CategoryOf(emails, lastOp.user, a) = Null
            /\ CategoryOf(emails, lastOp.user, b) = "OTHER"
    /\ \E i \in RowsOf(emails, lastOp.user) :
            emails[i].labels = "SENT" /\ emails[i].category = Null

\* C15: when send_reply fails, because the original email is not in the
\* user's storage or because the provider's send call fails, it returns an
\* error and no table has changed: emails, credentials and connections are
\* as before the call; when the original is absent the provider's send is
\* not called.
OriginalAbsent(u) == GetSingleEmailFromDb(emails, u, lastOp'.input.original) = {}

ReplyFailed(u) ==
    /\ StepOf("send_reply", u, "gmail")
    /\ \/ lastOp'.result = "error_not_found"
       \/ lastOp'.result = "error" /\ lastOp'.input.sent

ThreadIds == {GmailMsg(m).threadId : m \in MsgIds}

MembersOf(u, T) == {i \in RowsOf(emails, u) : emails[i].thread_id = T}

StrictlyDated(S) ==
    /\ S # {}
    /\ \A i \in S : emails[i].date_sent # NoTime
    /\ \A i, j \in S : i # j => emails[i].date_sent # emails[j].date_sent

DateOfId(u, id) ==
    LET i == CHOOSE x \in RowsOf(emails, u) : emails[x].gmail_id = id
    IN emails[i].date_sent

\* ids lists exactly the rows S, each once, by increasing date
OldestFirst(u, ids, S) ==
    /\ Len(ids) = Cardinality(S)
    /\ {ids[k] : k \in 1..Len(ids)} = {emails[i].gmail_id : i \in S}
    /\ \A k \in 1..(Len(ids) - 1) : DateOfId(u, ids[k]) < DateOfId(u, ids[k + 1])

\* th carries the count, the members and the latest member's data of S
DescribesThread(u, th, S) ==
    /\ th.email_count = Cardinality(S)
    /\ OldestFirst(u, th.emails, S)
    /\ \E i \in S :
        /\ \A j \in S : emails[j].date_sent <= emails[i].date_sent
        /\ th.latest_date_sent = emails[i].date_sent
        /\ th.subject = emails[i].subject
        /\ th.latest_sender = emails[i].from_email

ListedAs(ths, T) == {k \in 1..Len(ths) : ths[k].thread_id = T}

ListDescribesThread(u, ths, T) ==
    /\ Cardinality(ListedAs(ths, T)) = 1
    /\ \A k \in ListedAs(ths, T) : DescribesThread(u, ths[k], MembersOf(u, T))

GetDescribesThread(u, got, T) ==
    /\ Cardinality(got) = 1
    /\ \A th \in got : DescribesThread(u, th, MembersOf(u, T))

C17_ThreadMembersOldestFirst ==
    \A u \in SpecUsers, T \in ThreadIds :
        StrictlyDated(MembersOf(u, T)) =>
            /\ GetDescribesThread(u, GetThreadById(emails, u, T), T)
            /\ ListDescribesThread(u,
                    GetInboxThreads(emails, u, DefaultThreadLimit, 0), T)

\* thread T1 holds three emails with different dates, m2 stored before m1
C17_Witness ==
    \E u \in SpecUsers :
        /\ Cardinality(MembersOf(u, "T1")) = 3
        /\ StrictlyDated(MembersOf(u, "T1"))
        /\ \E i, j \in MembersOf(u, "T1") :
                i < j /\ emails[i].date_sent > emails[j].date_sent

\* C18: list_threads(limit, offset) pages threads, not email rows.  The
\* complete list holds every thread of the user once, latest member date
\* descending (null as the epoch), each with all of its members; every page
\* is the slice [offset, offset + limit) of it, so a returned thread has all
\* its members whatever the limit; the pages at offsets 0, limit, 2 limit, ...
\* share no thread and together hold every thread.
KeysOf(u) == {ThreadKey(emails[i]) : i \in RowsOf(emails, u)}

IdsUnder(u, key) ==
    {emails[i].gmail_id : i \in {x \in RowsOf(emails, u) : ThreadKey(emails[x]) = key}}

HasAllMembers(u, th) ==
    /\ {th.emails[k] : k \in 1..Len(th.emails)} = IdsUnder(u, th.thread_id)
    /\ th.email_count = Cardinality(IdsUnder(u, th.thread_id))

CompleteList(u, all) ==
    /\ Len(all) = Cardinality(KeysOf(u))
    /\ ListedThreadIds(all) = KeysOf(u)
    /\ \A k \in 1..Len(all) : HasAllMembers(u, all[k])
    /\ \A k \in 1..(Len(all) - 1) :
            SortKey(all[k].latest_date_sent) >= SortKey(all[k + 1].latest_date_sent)

SliceOf(all, limit, offset) ==
    SubSeq(all, offset + 1,
           IF Len(all) < offset + limit THEN Len(all) ELSE offset + limit)

PagesPartition(u, all, limit) ==
    /\ \A p, q \in 0..Len(all) :
            p # q => ListedThreadIds(GetInboxThreads(emails, u, limit, p * limit))
                        \cap ListedThreadIds(GetInboxThreads(emails, u, limit, q * limit))
                     = {}
    /\ UNION {ListedThreadIds(GetInboxThreads(emails, u, limit, p * limit))
                : p \in 0..Len(all)} = KeysOf(u)

Paginates(u, all) ==
    /\ CompleteList(u, all)
    /\ \A limit \in 1..(Len(all) + 1), offset \in 0..(Len(all) + 1) :
            GetInboxThreads(emails, u, limit, offset) = SliceOf(all, limit, offset)
    /\ \A limit \in 1..(Len(all) + 1) : PagesPartition(u, all, limit)

C18_PaginationOverThreads ==
    \A u \in SpecUsers :
        Paginates(u, GetInboxThreads(emails, u, Len(emails) + 1, 0))

\* three threads are stored, one of them with more members than a page of
\* one or two threads has entries
C18_Witness ==
    \E u \in SpecUsers :
        /\ Cardinality(KeysOf(u)) = 3
        /\ \E key \in KeysOf(u) : Cardinality(IdsUnder(u, key)) = 3

\* C19: in list_threads and in get_thread an email without a sent date is
\* never left out and sorts as the oldest: it comes before every dated member
\* in its thread's member list and is not the latest member while a dated
\* member exists; in the listing a thread whose members all lack the date
\* comes after every thread with a dated member.
DatedIds(u) ==
    {emails[i].gmail_id : i \in {x \in RowsOf(emails, u) : emails[x].date_sent # NoTime}}

HasDated(u, th) == \E k \in 1..Len(th.emails) : th.emails[k] \in DatedIds(u)

\* in the member list of th no dated email comes before an undated one, and
\* the latest date is a date when there is one
NullsOldest(u, th) ==
    /\ \A k, l \in 1..Len(th.emails) :
            (k < l /\ th.emails[k] \in DatedIds(u)) => th.emails[l] \in DatedIds(u)
    /\ HasDated(u, th) => th.latest_date_sent # NoTime

NullsOldestInList(u, all) ==
    /\ \A k \in 1..Len(all) : HasAllMembers(u, all[k]) /\ NullsOldest(u, all[k])
    /\ ListedThreadIds(all) = KeysOf(u)
    /\ \A k, l \in 1..Len(all) :
            (k < l /\ ~HasDated(u, all[k])) => ~HasDated(u, all[l])

NullsOldestInGet(u, T, got) ==
    MembersOf(u, T) # {} =>
        /\ Cardinality(got) = 1
        /\ \A th \in got :
            /\ {th.emails[k] : k \in 1..Len(th.emails)}
                    = {emails[i].gmail_id : i \in MembersOf(u, T)}
            /\ NullsOldest(u, th)

C19_InboxListsNullDatesOldest ==
    \A u \in SpecUsers :
        NullsOldestInList(u, GetInboxThreads(emails, u, DefaultThreadLimit, 0))

C19_NullDatesOldest ==
    \A u \in SpecUsers :
        /\ NullsOldestInList(u, GetInboxThreads(emails, u, DefaultThreadLimit, 0))
        /\ \A T \in ThreadIds : NullsOldestInGet(u, T, GetThreadById(emails, u, T))

\* C20: thread metadata is derived from the stored member emails at every
\* read: each thread of list_threads or get_thread has unread_count the number
\* of its members not marked read, is_unread exactly when that is positive,
\* and has_attachments exactly when some member has attachments; and right
\* after mark_thread_as_read on a thread id the listing reported, that thread
\* reads unread_count 0.
RowsUnder(u, key) == {x \in RowsOf(emails, u) : ThreadKey(emails[x]) = key}

DerivedFrom(th, S) ==
    /\ th.unread_count = Cardinality({i \in S : ~emails[i].is_read})
    /\ th.is_unread = (th.unread_count > 0)
    /\ th.has_attachments = (\E i \in S : emails[i].has_attachments)

ListDerived(u, all) ==
    \A k \in 1..Len(all) : DerivedFrom(all[k], RowsUnder(u, all[k].thread_id))

C20_MetadataDerived ==
    \A u \in SpecUsers :
        /\ ListDerived(u, GetInboxThreads(emails, u, DefaultThreadLimit, 0))
        /\ \A T \in ThreadIds :
                \A th \in GetThreadById(emails, u, T) :
                    DerivedFrom(th, MembersOf(u, T))

\* the thread listed under id T, and the thread got by id T, have nothing unread
ListReadsZero(all, T) ==
    \A k \in ListedAs(all, T) : all[k].unread_count = 0

ReadsZero(u, T) ==
    /\ ListReadsZero(GetInboxThreads(emails, u, DefaultThreadLimit, 0), T)
    /\ \A th \in GetThreadById(emails, u, T) : th.unread_count = 0

\* right after mark_thread_as_read on a thread id the provider gave, the
\* thread reads unread_count 0
C20_MarkedProviderThreadReadsZero ==
    (lastOp.op = "mark_thread_as_read" /\ lastOp.input.original \in ThreadIds)
        => ReadsZero(lastOp.user, lastOp.input.original)

\* lastOp is the operation taken last, so the state is the one right after it
C20_ThreadMetadataDerived ==
    /\ C20_MetadataDerived
    /\ lastOp.op = "mark_thread_as_read"
            => ReadsZero(lastOp.user, lastOp.input.original)

\* C21: when a user's Gmail connection leaves status connected and stays out
\* of it, the polling service eventually has no task for the user and the
\* task fetches no more; when the connection becomes connected and stays so,
\* the service has a task for the user again.
ConnectedGmail(u) ==
    /\ Conn(u, "gmail") # NoRow
    /\ Conn(u, "gmail").status = "connected"

PolledFor(u) == StepOf("fetch", u, "gmail") /\ lastOp'.input.poll

C21_PollingFollowsConnection ==
    \A u \in SpecUsers :
        /\ <>[](~ConnectedGmail(u)) =>
                (<>[](u \notin polling_tasks) /\ <>[][~PolledFor(u)]_vars)
        /\ <>[]ConnectedGmail(u) => []<>(u \in polling_tasks)

\* the task of a user has fetched an email, the user has disconnected, and
\* the service has no task for the user
C21_Witness ==
    \E u \in SpecUsers :
        /\ Conn(u, "gmail") # NoRow
        /\ Conn(u, "gmail").status = "disconnected"
        /\ RowsOf(emails, u) # {}
        /\ u \notin polling_tasks

\* C22: every operation is scoped to the calling user.  An operation of user
\* U (fetch, mark_email_as_read, mark_thread_as_read) changes or removes no
\* email of another user and adds emails of U only; what list_threads,
\* get_thread and get_single_email return to U is made of the emails of U
\* alone, also when another user stores the same message id or thread id.
OwnedBy(U) == {i \in 1..Len(emails) : emails[i].user_id = U}

WritesOwnOnly(U) ==
    /\ Len(emails') >= Len(emails)
    /\ \A i \in 1..Len(emails) :
            /\ emails'[i].user_id = emails[i].user_id
            /\ emails[i].user_id # U => emails'[i] = emails[i]
    /\ \A i \in (Len(emails) + 1)..Len(emails') : emails'[i].user_id = U

\* th counts and lists the emails of U under its key, and no others
ThreadOfOwn(U, th, S) ==
    /\ S \subseteq OwnedBy(U)
    /\ th.email_count = Cardinality(S)
    /\ {th.emails[k] : k \in 1..Len(th.emails)} = {emails[i].gmail_id : i \in S}
    /\ th.unread_count = Cardinality({i \in S : ~emails[i].is_read})
    /\ th.has_attachments = (\E i \in S : emails[i].has_attachments)

ListOfOwn(U, all) ==
    \A k \in 1..Len(all) :
        ThreadOfOwn(U, all[k],
            {i \in OwnedBy(U) : ThreadKey(emails[i]) = all[k].thread_id})

ReadsOwnOnly(U) ==
    /\ ListOfOwn(U, GetInboxThreads(emails, U, DefaultThreadLimit, 0))
    /\ \A T \in ThreadIds :
            \A th \in GetThreadById(emails, U, T) :
                ThreadOfOwn(U, th, {i \in OwnedBy(U) : emails[i].thread_id = T})
    /\ \A id \in MsgIds :
            \A e \in GetSingleEmailFromDb(emails, U, id) :
                \E i \in OwnedBy(U) :
                    /\ emails[i].gmail_id = id
                    /\ e.gmail_id = id
                    /\ e.is_unread = ~emails[i].is_read
                    /\ e.thread_id = emails[i].thread_id

C22_ReadsScopedToUser == \A U \in Users : ReadsOwnOnly(U)

C22_ScopedToUser ==
    /\ []C22_ReadsScopedToUser
    /\ [][\A U \in Users :
            (lastOp'.flip # lastOp.flip /\ lastOp'.user = U) => WritesOwnOnly(U)]_vars

\* both users store m1 of thread T1, one has read it and the other has not,
\* and the user who has not has just marked an email or a thread as read
C22_Witness ==
    \E U, V \in Users :
        /\ U # V
        /\ lastOp.user = U
        /\ lastOp.op \in {"mark_email_as_read", "mark_thread_as_read"}
        /\ \E i \in OwnedBy(U), j \in OwnedBy(V) :
                /\ emails[i].gmail_id = emails[j].gmail_id
                /\ emails[i].thread_id = emails[j].thread_id
                /\ emails[i].is_read # emails[j].is_read

\* C23: in a fetch with only_new, a listed message whose id is in the user's
\* storage when it is checked is not asked of the provider (no
\* messages().get()), not upserted and not in the returned list; the other
\* listed messages are processed in the order of the listing, and a call that
\* completes returns them in that order.
Untouched(id) ==
    /\ id \notin lastOp'.input.got
    /\ id \notin lastOp'.upserted
    /\ \A k \in 1..Len(lastOp'.returned) : lastOp'.returned[k] # id

InListOrder ==
    /\ lastOp'.upserted \subseteq lastOp'.input.got
    /\ lastOp'.input.got \subseteq {lastOp'.input.listed[k] : k \in 1..Len(lastOp'.input.listed)}
    /\ \A k, l \in 1..Len(lastOp'.input.listed) :
            (k < l /\ lastOp'.input.listed[l] \in lastOp'.input.got
                   /\ lastOp'.input.listed[k] \notin StoredIds(lastOp'.user))
                => lastOp'.input.listed[k] \in lastOp'.input.got
    /\ lastOp'.result = "list" =>
            lastOp'.returned = SelectSeq(lastOp'.input.listed,
                                         LAMBDA id : id \in lastOp'.input.got)

C23_OnlyNewSkipsStored ==
    [][\A u \in SpecUsers :
            (StepOf("fetch", u, "gmail") /\ lastOp'.input.only_new) =>
                /\ \A k \in 1..Len(lastOp'.input.listed) :
                        lastOp'.input.listed[k] \in StoredIds(u)
                            => Untouched(lastOp'.input.listed[k])
                /\ InListOrder]_vars

\* C23 as amended: the same for a listed message that _email_exists_in_db
\* finds in the user's storage; when its query raises, the message is
\* treated as new.
C23_OnlyNewSkipsFound ==
    [][\A u \in SpecUsers :
            (StepOf("fetch", u, "gmail") /\ lastOp'.input.only_new) =>
                /\ \A k \in 1..Len(lastOp'.input.listed) :
                        (lastOp'.input.listed[k] \in StoredIds(u)
                            /\ k # lastOp'.input.checkFailAt)
                            => Untouched(lastOp'.input.listed[k])
                /\ InListOrder]_vars

\* a fetch with only_new has completed; it skipped a listed message that was
\* stored and returned another one
C23_Witness ==
    /\ lastOp.op = "fetch"
    /\ lastOp.input.only_new
    /\ lastOp.result = "list"
    /\ lastOp.returned # <<>>
    /\ \E k \in 1..Len(lastOp.input.listed) :
            /\ lastOp.input.listed[k] \notin lastOp.input.got
            /\ lastOp.input.listed[k] \in StoredIds(lastOp.user)

\* C24: in both services expires_at is normalised to UTC before it is stored
\* and before it is compared with the current time, so the refresh decision
\* is the one the instants give, however the store hands the value out:
\* Gmail answers true without asking the provider exactly when more than the
\* margin is left, Slack answers true exactly when more than the buffer is
\* left.
StoredNormalised ==
    \A i \in 1..Len(oauth_tokens) :
        oauth_tokens[i].expires_at.aware /\ oauth_tokens[i].expires_at.off = 0

GmailDecidesByInstant(u) ==
    \A tid \in {GetTokenId(connections, oauth_tokens, u, "gmail")} \ {NoTokenId} :
        StepOf("ensure_fresh", u, "gmail") =>
            ((lastOp'.result = "true" /\ ~lastOp'.called)
                <=> Instant(oauth_tokens[tid].expires_at) - now > RefreshMarginMinutes)

SlackDecidesByInstant(u) ==
    \A tid \in {GetTokenId(connections, oauth_tokens, u, "slack")} \ {NoTokenId} :
        StepOf("ensure_fresh", u, "slack") =>
            (lastOp'.result = "true"
                <=> Instant(oauth_tokens[tid].expires_at) - now > SlackBufferMinutes)

C24_GmailNormalisesExpiry ==
    [][StoredNormalised' /\ \A u \in SpecUsers : GmailDecidesByInstant(u)]_vars

C24_ExpiryNormalised ==
    [][/\ StoredNormalised'
       /\ \A u \in SpecUsers : GmailDecidesByInstant(u) /\ SlackDecidesByInstant(u)]_vars

\* C25: when a disconnect of the user has run while a refresh of the same
\* user was in flight (the credential loaded, the provider asked), then once
\* the refresh has saved and returned the connection is disconnected with a
\* null credential reference, the credential the refresh loaded is gone, and
\* no new credential has been stored.
RefreshSavesAfterDisconnect(u) ==
    /\ refreshing[u] # Idle
    /\ refreshing'[u] = Idle
    /\ Conn(u, "gmail").status = "disconnected"

C25_DisconnectWinsOverRefresh ==
    [][\A u \in SpecUsers :
            RefreshSavesAfterDisconnect(u) =>
                /\ connections'[<<u, "gmail">>].status = "disconnected"
                /\ connections'[<<u, "gmail">>].oauth_token_id = NoTokenId
                /\ Len(oauth_tokens') = Len(oauth_tokens)
                /\ oauth_tokens'[refreshing[u].tid] = Deleted]_vars

\* C26: the read flag of a stored email is changed only by the mark-read
\* operations: every other step, a fetch that re-ingests a stored message
\* among them, leaves the flag of every stored email as it was, so an email
\* marked read stays read across every later fetch.
MarkReadOps == {"mark_email_as_read", "mark_thread_as_read"}

C26_ReingestKeepsReadFlag ==
    [][lastOp'.op \notin MarkReadOps =>
            \A i \in 1..Len(emails) : emails'[i].is_read = emails[i].is_read]_vars

\* C27: list_threads and get_thread agree: every thread_id the listing
\* returns for a user addresses, in get_thread and in mark_thread_as_read of
\* the same user, a thread with the same members and the same email_count,
\* the singleton threads keyed by the message id included.
SameThread(th, got) ==
    /\ got # {}
    /\ \A g \in got :
        /\ g.email_count = th.email_count
        /\ {g.emails[i] : i \in 1..Len(g.emails)}
                = {th.emails[i] : i \in 1..Len(th.emails)}

\* the rows mark_thread_as_read updates under the id are the listed members
MarksMembers(u, th) ==
    {emails[i].gmail_id :
        i \in {x \in RowsOf(emails, u) : emails[x].thread_id = th.thread_id}}
        = {th.emails[i] : i \in 1..Len(th.emails)}

ListAgreesWithGet(u, all) ==
    \A k \in 1..Len(all) :
        /\ SameThread(all[k], GetThreadById(emails, u, all[k].thread_id))
        /\ MarksMembers(u, all[k])

C27_ListAndGetAgree ==
    \A u \in SpecUsers :
        ListAgreesWithGet(u, GetInboxThreads(emails, u, DefaultThreadLimit, 0))

\* C28: every email a fetch call upserts into storage is in the list the
\* call returns, whatever the outcome of the call, a provider or store
\* failure on a later message of the same call included.
ReturnedIds(op) == {op.returned[i] : i \in 1..Len(op.returned)}

C28_UpsertedAreReturned ==
    lastOp.op = "fetch" => lastOp.upserted \subseteq ReturnedIds(lastOp)

\* C29: the batch loop of the categorize_existing_emails script terminates:
\* with a finite set of uncategorized emails and a categorizer that may fail
\* or give no category for some of them, the loop eventually sees a batch
\* with processed = 0 and exits.
C29_BatchLoopTerminates ==
    (script.pc = "loop") ~> (script.pc = "done" /\ script.processed = 0)

\* C30: the answer of AuthService.refresh_token depends only on the refresh
\* token presented: whatever logins and refreshes of two users went through
\* the shared auth_service before, the answer to a refresh carries the new
\* tokens of the presented token's owner and no other user's identity.
OwnerOf(rt) == rt[2]

C30_RefreshAnswersItsOwner ==
    (lastAuth.op = "refresh" /\ lastAuth.response.status = 200) =>
        /\ lastAuth.response.body.user \in {Null, OwnerOf(lastAuth.presented)}
        /\ lastAuth.response.body.access_token[2] = OwnerOf(lastAuth.presented)
====
